---- MODULE Spec2Model ----
(***************************************************************************)
(* Field-sensitive, inclusion-based points-to analysis of                  *)
(* gcc/tree-ssa-structalias.c: constraint list, constraint graph, cycle    *)
(* unification, offline variable substitution and the worklist solver.     *)
(*                                                                         *)
(* Pointers of the C code are modelled by indices: a constraint_t is the   *)
(* index of the constraint in `constraints`, a weights bitmap is the index *)
(* of the bitmap in `bitmaps`, a varinfo_t is the variable id.  Vectors    *)
(* are sequences (positions are 1-based here, 0-based in the code).        *)
(***************************************************************************)
EXTENDS Integers, Sequences, FiniteSets, TLC

\* ------------------------------------------------------------------------
\* Bounds of the model
\* ------------------------------------------------------------------------

\* Longest input constraint list drawn from Universe.
MaxConstraints == 3

\* stats.iterations saturates here; the code only reads `iterations > 1`.
MaxIterations == 3

\* ------------------------------------------------------------------------
\* Program constants
\* ------------------------------------------------------------------------

SCALAR == 0
DEREF == 1
ADDRESSOF == 2

nothing_id == 0
anything_id == 1
readonly_id == 2
integer_id == 3

\* The null varinfo_t / a failed lookup.
NoVar == 0 - 1

\* ~0 of unsigned HOST_WIDE_INT (no modelled offset sum comes near it).
AllOnes == 2147483647

Min(S) == CHOOSE x \in S : \A y \in S : x <= y

RECURSIVE SetToSortedSeq(_)
\* The members of a bitmap in the order EXECUTE_IF_SET_IN_BITMAP visits them.
SetToSortedSeq(S) ==
  IF S = {} THEN << >>
  ELSE LET m == Min(S) IN << m >> \o SetToSortedSeq(S \ {m})

\* ------------------------------------------------------------------------
\* Vectors
\* ------------------------------------------------------------------------

\* First position whose element is not less than the object looked for
\* (Len+1 when none); below[i] tells whether element i is less than it.
VEC_lower_bound(below) ==
  LET ge == { i \in DOMAIN below : ~below[i] }
  IN IF ge = {} THEN Len(below) + 1 ELSE Min(ge)

VEC_safe_insert(vec, place, obj) ==
  SubSeq(vec, 1, place - 1) \o << obj >> \o SubSeq(vec, place, Len(vec))

VEC_ordered_remove(vec, place) ==
  SubSeq(vec, 1, place - 1) \o SubSeq(vec, place + 1, Len(vec))

\* ------------------------------------------------------------------------
\* Variables and constraint expressions
\* ------------------------------------------------------------------------

new_var_info(id, node) ==
  [ id |-> id, node |-> node, offset |-> 0, size |-> 0, fullsize |-> 0,
    next |-> NoVar,
    address_taken |-> FALSE, indirect_target |-> FALSE,
    is_artificial_var |-> FALSE, is_unknown_size_var |-> FALSE,
    solution |-> {}, variables |-> {}, complex |-> << >> ]

Expr(t, v, o) == [ type |-> t, var |-> v, offset |-> o ]

new_constraint(lhs, rhs) == [ lhs |-> lhs, rhs |-> rhs ]

constraint_expr_equal(a, b) ==
  a.type = b.type /\ a.var = b.var /\ a.offset = b.offset

\* constraint_expr_less comparing kind and variable only.
constraint_expr_less_no_offset(a, b) ==
  IF a.type = b.type THEN a.var < b.var ELSE a.type < b.type

constraint_expr_less(a, b) ==
  IF a.type = b.type
  THEN IF a.var = b.var THEN a.offset < b.offset ELSE a.var < b.var
  ELSE a.type < b.type

constraint_less(a, b) ==
  IF constraint_expr_less(a.lhs, b.lhs) THEN TRUE
  ELSE IF constraint_expr_less(b.lhs, a.lhs) THEN FALSE
  ELSE constraint_expr_less(a.rhs, b.rhs)

constraint_equal(a, b) ==
  constraint_expr_equal(a.lhs, b.lhs) /\ constraint_expr_equal(a.rhs, b.rhs)

constraint_edge_equal(a, b) == a.src = b.src /\ a.dest = b.dest

constraint_edge_less(a, b) ==
  IF a.dest < b.dest THEN TRUE
  ELSE IF a.dest = b.dest THEN a.src < b.src
  ELSE FALSE

\* VEC_lower_bound (constraint_edge_t, vec, &obj, constraint_edge_less)
VEC_lower_bound_edge(vec, obj) ==
  VEC_lower_bound([ i \in 1..Len(vec) |-> constraint_edge_less(vec[i], obj) ])

\* VEC_lower_bound (constraint_t, vec, &obj, constraint_less), the vector
\* holding indices into s.constraints.
VEC_lower_bound_constraint(s, vec, obj) ==
  VEC_lower_bound([ i \in 1..Len(vec) |->
                     constraint_less(s.constraints[vec[i]], obj) ])

\* A program state as one record; s.err names the assertion that failed.
Fail(s, what) == IF s.err = "" THEN [ s EXCEPT !.err = what ] ELSE s

VEC_safe_push_varinfo(s, vi) ==
  LET n == Cardinality(DOMAIN s.varmap)
  IN [ s EXCEPT !.varmap = [ i \in 0..n |-> IF i < n THEN s.varmap[i] ELSE vi ] ]

\* ------------------------------------------------------------------------
\* Variable creation
\* ------------------------------------------------------------------------

\* A variable without subvariables: a scalar of `size` bits.
create_variable_info_for(s, size) ==
  LET index == Cardinality(DOMAIN s.varmap)
      vi == [ new_var_info(index, index) EXCEPT !.size = size, !.fullsize = size ]
  IN [ VEC_safe_push_varinfo(s, vi) EXCEPT !.stats.total_vars = @ + 1 ]

RECURSIVE field_list_prev(_, _, _)
\* The element of base's field list after which insert_into_field_list
\* links a field of the given offset.
field_list_prev(s, prev, fieldoffset) ==
  LET curr == s.varmap[prev].next
  IN IF curr = NoVar \/ fieldoffset <= s.varmap[curr].offset THEN prev
     ELSE field_list_prev(s, curr, fieldoffset)

insert_into_field_list(s, base, field) ==
  LET prev == field_list_prev(s, base, s.varmap[field].offset)
  IN [ s EXCEPT !.varmap[field].next = s.varmap[prev].next,
                !.varmap[prev].next = field ]

\* A structure whose fields have the given offsets and sizes (sorted by
\* offset, as sort_fieldstack leaves them): one variable per field.
RECURSIVE create_fields(_, _, _, _, _)
create_fields(s, base, fullsize, fields, i) ==
  IF i > Len(fields) THEN s
  ELSE LET newindex == Cardinality(DOMAIN s.varmap)
           newvi == [ new_var_info(newindex, newindex) EXCEPT
                        !.offset = fields[i].offset,
                        !.size = fields[i].size,
                        !.fullsize = fullsize ]
           s1 == insert_into_field_list(VEC_safe_push_varinfo(s, newvi),
                                        base, newindex)
       IN create_fields([ s1 EXCEPT !.stats.total_vars = @ + 1 ],
                        base, fullsize, fields, i + 1)

create_structure_info_for(s, fullsize, fields) ==
  LET index == Cardinality(DOMAIN s.varmap)
      vi == [ new_var_info(index, index) EXCEPT
                !.size = fields[1].size, !.fullsize = fullsize ]
  IN create_fields([ VEC_safe_push_varinfo(s, vi) EXCEPT
                      !.stats.total_vars = @ + 1 ],
                   index, fullsize, fields, 2)

\* ------------------------------------------------------------------------
\* Constraint emission
\* ------------------------------------------------------------------------

\* The loop of process_constraint over the field chain stopping after its
\* first variable.
mark_address_taken_first_only(s, vi) ==
  IF vi = NoVar THEN s
  ELSE [ s EXCEPT !.varmap[vi].address_taken = TRUE ]

RECURSIVE mark_address_taken(_, _)
mark_address_taken(s, vi) ==
  IF vi = NoVar THEN s
  ELSE mark_address_taken([ s EXCEPT !.varmap[vi].address_taken = TRUE ],
                          s.varmap[vi].next)

\* Size in bits of the pointer variables of the inputs and of the temporary
\* made for a split double dereference.
PointerSize == 32

RECURSIVE process_constraint_no_split(_, _)
\* process_constraint appending *x = *y as it is.
process_constraint_no_split(s, t) ==
  LET rhs == t.rhs
      lhs == t.lhs
  IN IF ~(rhs.var \in DOMAIN s.varmap /\ lhs.var \in DOMAIN s.varmap)
     THEN Fail(s, "process_constraint")
     ELSE IF lhs.var = anything_id /\ rhs.var = anything_id
     THEN s
     ELSE IF lhs.var = anything_id /\ lhs.type = ADDRESSOF
     THEN process_constraint_no_split(s, new_constraint(t.rhs, t.lhs))
     ELSE IF rhs.type = ADDRESSOF
     THEN IF rhs.offset # 0 THEN Fail(s, "process_constraint")
          ELSE [ mark_address_taken(s, rhs.var) EXCEPT
                   !.constraints = Append(@, t) ]
     ELSE LET s1 == IF lhs.type # DEREF /\ rhs.type = DEREF
                    THEN [ s EXCEPT !.varmap[lhs.var].indirect_target = TRUE ]
                    ELSE s
          IN [ s1 EXCEPT !.constraints = Append(@, t) ]

RECURSIVE process_constraint_no_swap(_, _)
\* process_constraint appending &ANYTHING = x as it is.
process_constraint_no_swap(s, t) ==
  LET rhs == t.rhs
      lhs == t.lhs
  IN IF ~(rhs.var \in DOMAIN s.varmap /\ lhs.var \in DOMAIN s.varmap)
     THEN Fail(s, "process_constraint")
     ELSE IF lhs.var = anything_id /\ rhs.var = anything_id
     THEN s
     ELSE IF lhs.var = anything_id /\ lhs.type = ADDRESSOF
     THEN [ s EXCEPT !.constraints = Append(@, t) ]
     ELSE IF rhs.type = DEREF /\ lhs.type = DEREF /\ rhs.var # anything_id
     THEN LET tmp == Cardinality(DOMAIN s.varmap)
              s1 == create_variable_info_for(s, PointerSize)
              tmplhs == Expr(SCALAR, tmp, 0)
              s2 == process_constraint_no_swap(s1, new_constraint(tmplhs, rhs))
          IN process_constraint_no_swap(s2, new_constraint(lhs, tmplhs))
     ELSE IF rhs.type = ADDRESSOF
     THEN IF rhs.offset # 0 THEN Fail(s, "process_constraint")
          ELSE [ mark_address_taken(s, rhs.var) EXCEPT
                   !.constraints = Append(@, t) ]
     ELSE LET s1 == IF lhs.type # DEREF /\ rhs.type = DEREF
                    THEN [ s EXCEPT !.varmap[lhs.var].indirect_target = TRUE ]
                    ELSE s
          IN [ s1 EXCEPT !.constraints = Append(@, t) ]

RECURSIVE process_constraint(_, _)
process_constraint(s, t) ==
  LET rhs == t.rhs
      lhs == t.lhs
  IN IF ~(rhs.var \in DOMAIN s.varmap /\ lhs.var \in DOMAIN s.varmap)
     THEN Fail(s, "process_constraint")
     ELSE IF lhs.var = anything_id /\ rhs.var = anything_id
     THEN s
     ELSE IF lhs.var = anything_id /\ lhs.type = ADDRESSOF
     THEN process_constraint(s, new_constraint(t.rhs, t.lhs))
     ELSE IF rhs.type = DEREF /\ lhs.type = DEREF /\ rhs.var # anything_id
     THEN LET tmp == Cardinality(DOMAIN s.varmap)
              s1 == create_variable_info_for(s, PointerSize)
              tmplhs == Expr(SCALAR, tmp, 0)
              s2 == process_constraint(s1, new_constraint(tmplhs, rhs))
          IN process_constraint(s2, new_constraint(lhs, tmplhs))
     ELSE IF rhs.type = ADDRESSOF
     THEN IF rhs.offset # 0 THEN Fail(s, "process_constraint")
          ELSE [ mark_address_taken(s, rhs.var) EXCEPT
                   !.constraints = Append(@, t) ]
     ELSE LET s1 == IF lhs.type # DEREF /\ rhs.type = DEREF
                    THEN [ s EXCEPT !.varmap[lhs.var].indirect_target = TRUE ]
                    ELSE s
          IN [ s1 EXCEPT !.constraints = Append(@, t) ]

RECURSIVE process_constraints(_, _, _)
\* The front end emitting the constraints of cs in order.
process_constraints(s, cs, i) ==
  IF i > Len(cs) THEN s
  ELSE process_constraints(process_constraint(s, cs[i]), cs, i + 1)

\* ------------------------------------------------------------------------
\* init_base_vars
\* ------------------------------------------------------------------------

EmptyState ==
  [ varmap |-> << >>, constraints |-> << >>,
    graph |-> [ succs |-> << >>, preds |-> << >> ],
    bitmaps |-> << >>, edge_added |-> FALSE,
    changed |-> {}, changed_count |-> 0,
    stats |-> [ total_vars |-> 0, collapsed_vars |-> 0,
                unified_vars_static |-> 0, unified_vars_dynamic |-> 0,
                iterations |-> 0 ],
    err |-> "" ]

base_var(id) ==
  [ new_var_info(id, id) EXCEPT !.is_artificial_var = TRUE,
      !.offset = 0, !.size = AllOnes, !.fullsize = AllOnes ]

\* init_base_vars handing ANYTHING = &ANYTHING to process_constraint, which
\* drops it.
init_base_vars_seed_processed ==
  LET s0 == VEC_safe_push_varinfo(EmptyState, base_var(nothing_id))
      s1 == VEC_safe_push_varinfo(s0, base_var(anything_id))
      s2 == process_constraint(
              [ s1 EXCEPT !.varmap[anything_id].address_taken = TRUE ],
              new_constraint(Expr(SCALAR, anything_id, 0),
                             Expr(ADDRESSOF, anything_id, 0)))
      s3 == VEC_safe_push_varinfo(s2, base_var(readonly_id))
      s4 == process_constraint(s3,
                   new_constraint(Expr(SCALAR, readonly_id, 0),
                                  Expr(ADDRESSOF, anything_id, 0)))
      s5 == VEC_safe_push_varinfo(s4, base_var(integer_id))
  IN process_constraint(s5,
                   new_constraint(Expr(SCALAR, integer_id, 0),
                                  Expr(ADDRESSOF, anything_id, 0)))

init_base_vars ==
  LET s0 == VEC_safe_push_varinfo(EmptyState, base_var(nothing_id))
      s1 == VEC_safe_push_varinfo(s0, base_var(anything_id))
      s2 == [ s1 EXCEPT !.varmap[anything_id].address_taken = TRUE,
                !.constraints = Append(@,
                   new_constraint(Expr(SCALAR, anything_id, 0),
                                  Expr(ADDRESSOF, anything_id, 0))) ]
      s3 == VEC_safe_push_varinfo(s2, base_var(readonly_id))
      s4 == process_constraint(s3,
                   new_constraint(Expr(SCALAR, readonly_id, 0),
                                  Expr(ADDRESSOF, anything_id, 0)))
      s5 == VEC_safe_push_varinfo(s4, base_var(integer_id))
  IN process_constraint(s5,
                   new_constraint(Expr(SCALAR, integer_id, 0),
                                  Expr(ADDRESSOF, anything_id, 0)))

\* ------------------------------------------------------------------------
\* Constraint graph
\* ------------------------------------------------------------------------

Edge(src, dest) == [ src |-> src, dest |-> dest ]

new_constraint_edge(src, dest, weights) ==
  [ src |-> src, dest |-> dest, weights |-> weights ]

\* Position of the edge LOOKFOR in VEC, 0 for NULL.  The code indexes VEC at
\* the lower bound without testing it against the length; a lower bound past
\* the end is reported by constraint_edge_vec_find_oob.
constraint_edge_vec_find(vec, lookfor) ==
  LET place == VEC_lower_bound_edge(vec, lookfor)
  IN IF place > Len(vec) THEN 0
     ELSE IF ~constraint_edge_equal(vec[place], lookfor) THEN 0
     ELSE place

constraint_edge_vec_find_oob(vec, lookfor) ==
  VEC_lower_bound_edge(vec, lookfor) > Len(vec)

add_graph_edge(s, newe) ==
  LET src == newe.src
      dest == newe.dest
      vec == s.graph.preds[src]
      place == VEC_lower_bound_edge(vec, newe)
  IN IF place = Len(vec) + 1 \/ vec[place].dest # dest
     THEN LET weightbitmap == Len(s.bitmaps) + 1
              edge == new_constraint_edge(src, dest, weightbitmap)
              edge2 == new_constraint_edge(dest, src, weightbitmap)
              s1 == [ s EXCEPT !.bitmaps = Append(@, {}),
                               !.graph.preds[src] =
                                  VEC_safe_insert(@, place, edge) ]
              place2 == VEC_lower_bound_edge(s1.graph.succs[dest], edge2)
          IN [ s1 EXCEPT !.graph.succs[dest] =
                            VEC_safe_insert(@, place2, edge2),
                         !.edge_added = TRUE ]
     ELSE s

\* The return value of add_graph_edge.
add_graph_edge_added(s, newe) ==
  LET vec == s.graph.preds[newe.src]
      place == VEC_lower_bound_edge(vec, newe)
  IN place = Len(vec) + 1 \/ vec[place].dest # newe.dest

\* The weights bitmap of edge LOOKFOR, 0 when the edge is absent (the code
\* asserts that it is present).
get_graph_weights(s, lookfor) ==
  LET vec == s.graph.preds[lookfor.src]
      edge == constraint_edge_vec_find(vec, lookfor)
  IN IF edge = 0 THEN 0 ELSE vec[edge].weights

valid_graph_edge(s, lookfor) ==
  constraint_edge_vec_find(s.graph.preds[lookfor.src], lookfor) # 0

erase_graph_self_edge(s, edge) ==
  LET predvec == s.graph.preds[edge.src]
      succvec == s.graph.succs[edge.dest]
      splace == VEC_lower_bound_edge(succvec, edge)
      pplace == VEC_lower_bound_edge(predvec, edge)
  IN IF edge.src # edge.dest THEN Fail(s, "erase_graph_self_edge")
     ELSE IF splace > Len(succvec) \/ pplace > Len(predvec)
             \/ ~constraint_edge_equal(succvec[splace], edge)
             \/ ~constraint_edge_equal(predvec[pplace], edge)
     THEN Fail(s, "erase_graph_self_edge")
     ELSE [ s EXCEPT !.graph.succs[edge.dest] = VEC_ordered_remove(@, splace),
                     !.graph.preds[edge.src] = VEC_ordered_remove(@, pplace) ]

RECURSIVE clear_succ_side(_, _, _, _)
\* Walk the successors of NODE, erase the associated preds.
clear_succ_side(s, node, succvec, i) ==
  IF i > Len(succvec) THEN s
  ELSE LET c == succvec[i]
       IN IF c.dest = node THEN clear_succ_side(s, node, succvec, i + 1)
          ELSE LET lookfor == Edge(c.dest, node)
                   place == VEC_lower_bound_edge(s.graph.preds[c.dest], lookfor)
               IN IF place > Len(s.graph.preds[c.dest])
                  THEN Fail(s, "VEC_ordered_remove")
                  ELSE clear_succ_side(
                         [ s EXCEPT !.graph.preds[c.dest] =
                                      VEC_ordered_remove(@, place) ],
                         node, succvec, i + 1)

RECURSIVE clear_pred_side(_, _, _, _)
\* Walk the preds of NODE, erase the associated succs.
clear_pred_side(s, node, predvec, i) ==
  IF i > Len(predvec) THEN s
  ELSE LET c == predvec[i]
       IN IF c.dest = node THEN clear_pred_side(s, node, predvec, i + 1)
          ELSE LET lookfor == Edge(c.dest, node)
                   place == VEC_lower_bound_edge(s.graph.succs[c.dest], lookfor)
               IN IF place > Len(s.graph.succs[c.dest])
                  THEN Fail(s, "VEC_ordered_remove")
                  ELSE clear_pred_side(
                         [ s EXCEPT !.graph.succs[c.dest] =
                                      VEC_ordered_remove(@, place) ],
                         node, predvec, i + 1)

\* clear_edges_for_node without its walk over the preds of NODE.
clear_edges_for_node_succs_only(s, node) ==
  LET s1 == clear_succ_side(s, node, s.graph.succs[node], 1)
  IN [ s1 EXCEPT !.graph.preds[node] = << >>,
                 !.graph.succs[node] = << >> ]

clear_edges_for_node(s, node) ==
  LET succvec == s.graph.succs[node]
      predvec == s.graph.preds[node]
      s1 == clear_succ_side(s, node, succvec, 1)
      s2 == clear_pred_side(s1, node, predvec, 1)
  IN [ s2 EXCEPT !.graph.preds[node] = << >>,
                 !.graph.succs[node] = << >> ]

\* bitmap_ior_into (weights of newe, weights of olde)
merge_edge_weights(s, olde, newe) ==
  LET temp == get_graph_weights(s, olde)
      weights == get_graph_weights(s, newe)
  IN IF temp = 0 \/ weights = 0 THEN Fail(s, "get_graph_weights")
     ELSE [ s EXCEPT !.bitmaps[weights] = @ \cup s.bitmaps[temp] ]

RECURSIVE merge_pred_edges(_, _, _, _, _)
merge_pred_edges(s, to, from, predvec, i) ==
  IF i > Len(predvec) THEN s
  ELSE LET c == predvec[i]
           d == IF c.dest = from THEN to ELSE c.dest
           newe == Edge(to, d)
           olde == Edge(from, c.dest)
           s1 == merge_edge_weights(add_graph_edge(s, newe), olde, newe)
       IN merge_pred_edges(s1, to, from, predvec, i + 1)

RECURSIVE merge_succ_edges(_, _, _, _, _)
merge_succ_edges(s, to, from, succvec, i) ==
  IF i > Len(succvec) THEN s
  ELSE LET c == succvec[i]
           d == IF c.dest = from THEN to ELSE c.dest
           newe == Edge(d, to)
           olde == Edge(c.dest, from)
           s1 == merge_edge_weights(add_graph_edge(s, newe), olde, newe)
       IN merge_succ_edges(s1, to, from, succvec, i + 1)

merge_graph_nodes(s, to, from) ==
  LET succvec == s.graph.succs[from]
      predvec == s.graph.preds[from]
      s1 == merge_pred_edges(s, to, from, predvec, 1)
      s2 == merge_succ_edges(s1, to, from, succvec, 1)
  IN clear_edges_for_node(s2, from)

\* The return value of int_add_graph_edge.
int_add_graph_edge_added(s, to, from, weight) ==
  IF to = from /\ weight = 0 THEN FALSE
  ELSE LET edge == Edge(to, from)
           s1 == add_graph_edge(s, edge)
       IN add_graph_edge_added(s, edge)
          \/ weight \notin s1.bitmaps[get_graph_weights(s1, edge)]

int_add_graph_edge(s, to, from, weight) ==
  IF to = from /\ weight = 0 THEN s
  ELSE LET edge == Edge(to, from)
           s1 == add_graph_edge(s, edge)
           w == get_graph_weights(s1, edge)
       IN IF w = 0 THEN Fail(s1, "get_graph_weights")
          ELSE [ s1 EXCEPT !.bitmaps[w] = @ \cup { weight } ]

insert_into_complex(s, var, c) ==
  LET vec == s.varmap[var].complex
      place == VEC_lower_bound_constraint(s, vec, s.constraints[c])
  IN [ s EXCEPT !.varmap[var].complex = VEC_safe_insert(@, place, c) ]

RECURSIVE build_constraints_every_copy(_, _)
\* The loop of build_constraint_graph making an edge for every scalar copy.
build_constraints_every_copy(s, i) ==
  IF i > Len(s.constraints) THEN s
  ELSE LET lhs == s.constraints[i].lhs
           rhs == s.constraints[i].rhs
           s1 ==
             IF lhs.type = DEREF
             THEN IF rhs.type = ADDRESSOF \/ rhs.var > anything_id
                  THEN insert_into_complex(s, lhs.var, i)
                  ELSE s
             ELSE IF rhs.type = DEREF
             THEN IF lhs.var > anything_id
                  THEN insert_into_complex(s, rhs.var, i)
                  ELSE s
             ELSE IF rhs.type = ADDRESSOF
             THEN [ s EXCEPT !.varmap[lhs.var].solution = @ \cup { rhs.var } ]
             ELSE LET edge == Edge(lhs.var, rhs.var)
                      s2 == add_graph_edge(s, edge)
                      w == get_graph_weights(s2, edge)
                  IN IF w = 0 THEN Fail(s2, "get_graph_weights")
                     ELSE [ s2 EXCEPT !.bitmaps[w] = @ \cup { rhs.offset } ]
       IN build_constraints_every_copy(s1, i + 1)

RECURSIVE build_constraints(_, _)
\* The loop of build_constraint_graph from constraint i on.
build_constraints(s, i) ==
  IF i > Len(s.constraints) THEN s
  ELSE LET lhs == s.constraints[i].lhs
           rhs == s.constraints[i].rhs
           s1 ==
             IF lhs.type = DEREF
             THEN IF rhs.type = ADDRESSOF \/ rhs.var > anything_id
                  THEN insert_into_complex(s, lhs.var, i)
                  ELSE s
             ELSE IF rhs.type = DEREF
             THEN IF lhs.var > anything_id
                  THEN insert_into_complex(s, rhs.var, i)
                  ELSE s
             ELSE IF rhs.type = ADDRESSOF
             THEN [ s EXCEPT !.varmap[lhs.var].solution = @ \cup { rhs.var } ]
             ELSE IF rhs.var > anything_id /\ lhs.var > anything_id
             THEN IF lhs.var # rhs.var \/ rhs.offset # 0 \/ lhs.offset # 0
                  THEN LET edge == Edge(lhs.var, rhs.var)
                           s2 == add_graph_edge(s, edge)
                           w == get_graph_weights(s2, edge)
                       IN IF w = 0 THEN Fail(s2, "get_graph_weights")
                          ELSE [ s2 EXCEPT !.bitmaps[w] = @ \cup { rhs.offset } ]
                  ELSE s
             ELSE s
       IN build_constraints(s1, i + 1)

build_constraint_graph(s) ==
  LET empty == [ v \in DOMAIN s.varmap |-> << >> ]
  IN build_constraints(
       [ s EXCEPT !.graph = [ succs |-> empty, preds |-> empty ] ], 1)

\* ------------------------------------------------------------------------
\* Unification
\* ------------------------------------------------------------------------

\* Position of a constraint equal to LOOKFOR in the sorted vector of
\* constraint indices VEC, 0 for NULL.
constraint_vec_find(s, vec, lookfor) ==
  LET place == VEC_lower_bound_constraint(s, vec, lookfor)
  IN IF place > Len(vec) THEN 0
     ELSE IF ~constraint_equal(s.constraints[vec[place]], lookfor) THEN 0
     ELSE place

RECURSIVE constraint_set_union_no_find(_, _, _, _)
\* constraint_set_union inserting every constraint of FROM, found or not.
constraint_set_union_no_find(s, to, from, i) ==
  IF i > Len(from) THEN s
  ELSE constraint_set_union_no_find(insert_into_complex(s, to, from[i]),
                                    to, from, i + 1)

RECURSIVE constraint_set_union(_, _, _, _)
\* Union the constraint vector FROM into the complex list of variable TO.
constraint_set_union(s, to, from, i) ==
  IF i > Len(from) THEN s
  ELSE LET c == from[i]
       IN IF constraint_vec_find(s, s.varmap[to].complex, s.constraints[c]) = 0
          THEN constraint_set_union(insert_into_complex(s, to, c), to, from, i + 1)
          ELSE constraint_set_union(s, to, from, i + 1)

RECURSIVE rewrite_complex(_, _, _, _)
\* In complex constraints for node src, we may have either a = *src, or
\* *src = a: make them refer to TO.
rewrite_complex(s, to, vec, i) ==
  IF i > Len(vec) THEN s
  ELSE LET c == vec[i]
           s1 == IF s.constraints[c].rhs.type = DEREF
                 THEN [ s EXCEPT !.constraints[c].rhs.var = to ]
                 ELSE [ s EXCEPT !.constraints[c].lhs.var = to ]
       IN rewrite_complex(s1, to, vec, i + 1)

\* condense_varmap_nodes redirecting SRC alone, not the variables it stands
\* for.
condense_varmap_nodes_src_only(s, to, src) ==
  LET srcvars == s.varmap[src].variables
      srccomplex == s.varmap[src].complex
      s1 == [ s EXCEPT !.varmap[src].node = to ]
      s2 == [ s1 EXCEPT !.varmap[to].variables = @ \cup { src } \cup srcvars ]
      s3 == [ s2 EXCEPT !.varmap[src].variables = {} ]
      s4 == rewrite_complex(s3, to, srccomplex, 1)
      s5 == constraint_set_union(s4, to, srccomplex, 1)
  IN [ s5 EXCEPT !.varmap[src].complex = << >> ]

condense_varmap_nodes_drop_src(s, to, src) ==
  LET srcvars == s.varmap[src].variables
      srccomplex == s.varmap[src].complex
      s1 == [ s EXCEPT !.varmap =
                [ i \in DOMAIN @ |->
                    IF i = src \/ i \in srcvars
                    THEN [ @[i] EXCEPT !.node = to ] ELSE @[i] ] ]
      s2 == [ s1 EXCEPT !.varmap[to].variables = @ \cup srcvars ]
      s3 == [ s2 EXCEPT !.varmap[src].variables = {} ]
      s4 == rewrite_complex(s3, to, srccomplex, 1)
      s5 == constraint_set_union(s4, to, srccomplex, 1)
  IN [ s5 EXCEPT !.varmap[src].complex = << >> ]

condense_varmap_nodes(s, to, src) ==
  LET srcvars == s.varmap[src].variables
      srccomplex == s.varmap[src].complex
      s1 == [ s EXCEPT !.varmap =
                [ i \in DOMAIN @ |->
                    IF i = src \/ i \in srcvars
                    THEN [ @[i] EXCEPT !.node = to ] ELSE @[i] ] ]
      s2 == [ s1 EXCEPT !.varmap[to].variables = @ \cup { src } \cup srcvars ]
      s3 == [ s2 EXCEPT !.varmap[src].variables = {} ]
      s4 == rewrite_complex(s3, to, srccomplex, 1)
      s5 == constraint_set_union(s4, to, srccomplex, 1)
  IN [ s5 EXCEPT !.varmap[src].complex = << >> ]

\* The self edge of N cleared of its zero weight and never erased.
remove_zero_self_edge_no_erase(s, n) ==
  LET edge == Edge(n, n)
  IN IF constraint_edge_vec_find_oob(s.graph.preds[n], edge)
     THEN Fail(s, "VEC_index")
     ELSE IF valid_graph_edge(s, edge)
     THEN [ s EXCEPT !.bitmaps[get_graph_weights(s, edge)] = @ \ { 0 } ]
     ELSE s

\* Clear the zero weight of the self edge of N, erasing the edge when no
\* weight is left (the tail of collapse_nodes and of each unification group).
remove_zero_self_edge(s, n) ==
  LET edge == Edge(n, n)
  IN IF constraint_edge_vec_find_oob(s.graph.preds[n], edge)
     THEN Fail(s, "VEC_index")
     ELSE IF valid_graph_edge(s, edge)
     THEN LET weights == get_graph_weights(s, edge)
              s1 == [ s EXCEPT !.bitmaps[weights] = @ \ { 0 } ]
          IN IF s1.bitmaps[weights] = {}
             THEN erase_graph_self_edge(s1, edge)
             ELSE s1
     ELSE s

collapse_nodes(s, to, from) ==
  LET s1 == condense_varmap_nodes(s, to, from)
      s2 == [ s1 EXCEPT !.varmap[to].solution = @ \cup s1.varmap[from].solution ]
      s3 == merge_graph_nodes(s2, to, from)
      s4 == remove_zero_self_edge(s3, to)
      s5 == [ s4 EXCEPT !.varmap[from].solution = {} ]
  IN [ s5 EXCEPT
         !.varmap[to].address_taken = @ \/ s5.varmap[from].address_taken,
         !.varmap[to].indirect_target = @ \/ s5.varmap[from].indirect_target ]

\* ------------------------------------------------------------------------
\* Cycle detection
\* ------------------------------------------------------------------------

init_scc_info(s) ==
  [ current_index |-> 0,
    visited |-> {},
    in_component |-> DOMAIN s.varmap,
    visited_index |-> [ v \in DOMAIN s.varmap |-> 0 ],
    scc_stack |-> << >>,
    unification_queue |-> << >> ]

RECURSIVE scc_pop(_, _, _)
\* Pop the members of the component rooted at N off the stack.
scc_pop(x, n, t) ==
  LET stack == x.si.scc_stack
  IN IF Len(stack) # 0 /\ t < x.si.visited_index[stack[Len(stack)]]
     THEN LET w == stack[Len(stack)]
          IN scc_pop([ st |-> [ x.st EXCEPT !.varmap[w].node = n ],
                       si |-> [ x.si EXCEPT
                                  !.scc_stack = SubSeq(stack, 1, Len(stack) - 1),
                                  !.in_component = @ \cup { w },
                                  !.unification_queue = Append(@, w) ] ],
                     n, t)
     ELSE x

RECURSIVE scc_visit(_, _), scc_visit_succs(_, _, _)
\* x is the pair of the program state x.st and the scc_info x.si.
scc_visit(x, n) ==
  IF x.st.varmap[n].node # n
  THEN [ x EXCEPT !.st = Fail(x.st, "scc_visit") ]
  ELSE LET x1 == [ x EXCEPT !.si.visited = @ \cup { n },
                            !.si.in_component = @ \ { n },
                            !.si.visited_index[n] = x.si.current_index,
                            !.si.current_index = @ + 1 ]
           x2 == scc_visit_succs(x1, n, 1)
       IN IF x2.st.err # "" THEN x2
          ELSE IF x2.st.varmap[n].node = n
          THEN scc_pop([ x2 EXCEPT !.si.in_component = @ \cup { n } ],
                       n, x2.si.visited_index[n])
          ELSE [ x2 EXCEPT !.si.scc_stack = Append(@, n) ]

RECURSIVE scc_visit_succs_any_weight(_, _, _)
\* The loop over graph->succs[n] following every edge, whatever its weights.
scc_visit_succs_any_weight(x, n, i) ==
  IF i > Len(x.st.graph.succs[n]) \/ x.st.err # "" THEN x
  ELSE LET c == x.st.graph.succs[n][i]
           w == c.dest
           x1 == IF w \notin x.si.visited THEN scc_visit(x, w) ELSE x
           x2 == IF w \notin x1.si.in_component
                 THEN LET t == x1.st.varmap[w].node
                          nnode == x1.st.varmap[n].node
                      IN IF x1.si.visited_index[t]
                              < x1.si.visited_index[nnode]
                         THEN [ x1 EXCEPT !.st.varmap[n].node = t ]
                         ELSE x1
                 ELSE x1
       IN scc_visit_succs_any_weight(x2, n, i + 1)

\* The loop over graph->succs[n] from position i on.
scc_visit_succs(x, n, i) ==
  IF i > Len(x.st.graph.succs[n]) \/ x.st.err # "" THEN x
  ELSE LET c == x.st.graph.succs[n][i]
       IN IF 0 \in x.st.bitmaps[c.weights]
          THEN LET w == c.dest
                   x1 == IF w \notin x.si.visited THEN scc_visit(x, w) ELSE x
                   x2 == IF w \notin x1.si.in_component
                         THEN LET t == x1.st.varmap[w].node
                                  nnode == x1.st.varmap[n].node
                              IN IF x1.si.visited_index[t]
                                      < x1.si.visited_index[nnode]
                                 THEN [ x1 EXCEPT !.st.varmap[n].node = t ]
                                 ELSE x1
                         ELSE x1
               IN scc_visit_succs(x2, n, i + 1)
          ELSE scc_visit_succs(x, n, i + 1)

RECURSIVE scc_visit_all(_, _)
\* The loop of find_and_collapse_graph_cycles from variable i on.
scc_visit_all(x, i) ==
  IF i \notin DOMAIN x.st.varmap \/ x.st.err # "" THEN x
  ELSE IF i \notin x.si.visited /\ x.st.varmap[i].node = i
  THEN scc_visit_all(scc_visit(x, i), i + 1)
  ELSE scc_visit_all(x, i + 1)

\* The changed bit of TOUNIFY moved to N without touching changed_count.
unify_changed_no_decrement(s, n, tounify, update_changed) ==
  IF update_changed /\ tounify \in s.changed
  THEN [ s EXCEPT !.changed = (@ \ { tounify }) \cup { n } ]
  ELSE s

\* The changed bit of TOUNIFY handed over to its representative N.
unify_changed(s, n, tounify, update_changed) ==
  IF update_changed /\ tounify \in s.changed
  THEN IF n \notin s.changed
       THEN [ s EXCEPT !.changed = (@ \ { tounify }) \cup { n } ]
       ELSE IF s.changed_count > 0
       THEN [ s EXCEPT !.changed = @ \ { tounify },
                       !.changed_count = @ - 1 ]
       ELSE Fail(s, "process_unification_queue")
  ELSE s

\* One member TOUNIFY of the queue folded into N: the statistics, the graph
\* nodes, the variable map, the changed bit and the cleared solution.
unify_member(s, n, tounify, update_changed) ==
  LET s0 == IF update_changed
            THEN [ s EXCEPT !.stats.unified_vars_dynamic = @ + 1 ]
            ELSE [ s EXCEPT !.stats.unified_vars_static = @ + 1 ]
      s3 == unify_changed(
              condense_varmap_nodes(merge_graph_nodes(s0, n, tounify),
                                    n, tounify),
              n, tounify, update_changed)
  IN [ s3 EXCEPT !.varmap[tounify].solution = {} ]

\* The end of the component of N: tmp goes into the solution of N.
unify_finish(s, n, tmp, update_changed) ==
  LET grew == ~(tmp \subseteq s.varmap[n].solution)
      s5 == [ s EXCEPT !.varmap[n].solution = @ \cup tmp ]
      s6 == IF grew /\ update_changed /\ n \notin s.changed
            THEN [ s5 EXCEPT !.changed = @ \cup { n },
                             !.changed_count = @ + 1 ]
            ELSE s5
  IN remove_zero_self_edge(s6, n)

RECURSIVE process_unification_queue(_, _, _, _, _), unify_next(_, _, _, _, _, _)
\* The loop of process_unification_queue from queue position i on; tmp is
\* the scratch bitmap.
process_unification_queue(s, queue, update_changed, i, tmp) ==
  IF i > Len(queue) \/ s.err # "" THEN s
  ELSE LET tounify == queue[i]
           n == s.varmap[tounify].node
       IN unify_next(unify_member(s, n, tounify, update_changed), queue,
                     update_changed, i, tmp \cup s.varmap[tounify].solution, n)

\* The rest of the loop once member i is folded into n.
unify_next(s, queue, update_changed, i, tmp, n) ==
  IF i + 1 > Len(queue) \/ s.varmap[queue[i + 1]].node # n
  THEN process_unification_queue(unify_finish(s, n, tmp, update_changed),
                                 queue, update_changed, i + 1, {})
  ELSE process_unification_queue(s, queue, update_changed, i + 1, tmp)

\* find_and_collapse_graph_cycles doing nothing when called from the loop of
\* solve_graph.
find_and_collapse_graph_cycles_static_only(s, update_changed) ==
  IF update_changed THEN s
  ELSE LET x == scc_visit_all([ st |-> s, si |-> init_scc_info(s) ], 0)
       IN process_unification_queue(x.st, x.si.unification_queue,
                                    update_changed, 1, {})

find_and_collapse_graph_cycles(s, update_changed) ==
  LET x == scc_visit_all([ st |-> s, si |-> init_scc_info(s) ], 0)
  IN process_unification_queue(x.st, x.si.unification_queue,
                               update_changed, 1, {})

\* ------------------------------------------------------------------------
\* Topological order
\* ------------------------------------------------------------------------

init_topo_info == [ visited |-> {}, topo_order |-> << >> ]

RECURSIVE topo_visit(_, _, _), topo_visit_succs(_, _, _, _)
topo_visit(s, ti, n) ==
  LET ti1 == topo_visit_succs(s, [ ti EXCEPT !.visited = @ \cup { n } ], n, 1)
  IN [ ti1 EXCEPT !.topo_order = Append(@, n) ]

topo_visit_succs(s, ti, n, i) ==
  IF i > Len(s.graph.succs[n]) THEN ti
  ELSE LET c == s.graph.succs[n][i]
       IN IF c.dest \notin ti.visited
          THEN topo_visit_succs(s, topo_visit(s, ti, c.dest), n, i + 1)
          ELSE topo_visit_succs(s, ti, n, i + 1)

RECURSIVE compute_topo_order_from_every_node(_, _, _)
\* compute_topo_order starting a visit at every unvisited variable,
\* representative or not.
compute_topo_order_from_every_node(s, ti, i) ==
  IF i \notin DOMAIN s.varmap THEN ti
  ELSE IF i \notin ti.visited
  THEN compute_topo_order_from_every_node(s, topo_visit(s, ti, i), i + 1)
  ELSE compute_topo_order_from_every_node(s, ti, i + 1)

RECURSIVE compute_topo_order_from(_, _, _)
compute_topo_order_from(s, ti, i) ==
  IF i \notin DOMAIN s.varmap THEN ti
  ELSE IF i \notin ti.visited /\ s.varmap[i].node = i
  THEN compute_topo_order_from(s, topo_visit(s, ti, i), i + 1)
  ELSE compute_topo_order_from(s, ti, i + 1)

\* compute_topo_order leaving the order the other way round, the nodes
\* visited last at its end.
compute_topo_order_reversed(s) ==
  LET order == compute_topo_order_from(s, init_topo_info, 0).topo_order
  IN [ k \in 1..Len(order) |-> order[Len(order) + 1 - k] ]

compute_topo_order(s) == compute_topo_order_from(s, init_topo_info, 0).topo_order

\* ------------------------------------------------------------------------
\* Offsets and solution sets
\* ------------------------------------------------------------------------

RECURSIVE first_vi_for_offset(_, _, _)
\* NoVar stands for reaching gcc_unreachable.
first_vi_for_offset(s, start, offset) ==
  IF start = NoVar THEN NoVar
  ELSE LET curr == s.varmap[start]
       IN IF offset >= curr.offset /\ offset < curr.offset + curr.size
          THEN start
          ELSE first_vi_for_offset(s, curr.next, offset)

\* The offset type_safe leaves in *offset.
type_safe_offset(s, n, offset) ==
  IF n = anything_id \/ s.varmap[n].is_artificial_var
       \/ s.varmap[n].is_unknown_size_var
  THEN 0
  ELSE offset

type_safe(s, n, offset) ==
  IF n = anything_id \/ s.varmap[n].is_artificial_var
       \/ s.varmap[n].is_unknown_size_var
  THEN TRUE
  ELSE n > anything_id /\ s.varmap[n].offset + offset < s.varmap[n].fullsize

\* solution_set_add keeping every member whose shifted offset is out of range.
solution_set_add_keep_all(s, set, offset) ==
  { first_vi_for_offset(s, i, s.varmap[i].offset + offset) :
      i \in { j \in set : s.varmap[j].offset + offset < s.varmap[j].fullsize } }
  \cup { i \in set : ~(s.varmap[i].offset + offset < s.varmap[i].fullsize) }

\* The set solution_set_add leaves in SET (NoVar when gcc_unreachable is hit).
solution_set_add(s, set, offset) ==
  { first_vi_for_offset(s, i, s.varmap[i].offset + offset) :
      i \in { j \in set : s.varmap[j].offset + offset < s.varmap[j].fullsize } }
  \cup { i \in set : /\ ~(s.varmap[i].offset + offset < s.varmap[i].fullsize)
                     /\ (s.varmap[i].is_artificial_var
                         \/ s.varmap[i].is_unknown_size_var) }

\* set_union_with_increment storing the incremented FROM over TO.
set_union_with_increment_overwrite(s, to, from, inc) ==
  IF inc = 0 THEN from
  ELSE solution_set_add(s, from, inc)

\* The bitmap set_union_with_increment leaves in TO.
set_union_with_increment(s, to, from, inc) ==
  IF inc = 0 THEN to \cup from
  ELSE to \cup solution_set_add(s, from, inc)

\* Mark node t changed.
mark_changed(s, t) ==
  IF t \notin s.changed
  THEN [ s EXCEPT !.changed = @ \cup { t }, !.changed_count = @ + 1 ]
  ELSE s

\* ------------------------------------------------------------------------
\* Complex constraints
\* ------------------------------------------------------------------------

RECURSIVE do_da_members(_, _, _, _, _)
\* *x = &y over the members delta[i..] of Sol(x); offset is the local that
\* type_safe may overwrite.
do_da_members(s, rhs, offset, delta, i) ==
  IF i > Len(delta) \/ s.err # "" THEN s
  ELSE LET j == delta[i]
           off1 == type_safe_offset(s, j, offset)
       IN IF type_safe(s, j, offset)
          THEN LET fieldoffset == s.varmap[j].offset + off1
                   v == first_vi_for_offset(s, j, fieldoffset)
               IN IF v = NoVar THEN Fail(s, "first_vi_for_offset")
                  ELSE LET t == s.varmap[v].node
                           s1 == IF rhs \notin s.varmap[t].solution
                                 THEN mark_changed(
                                        [ s EXCEPT !.varmap[t].solution =
                                                      @ \cup { rhs } ], t)
                                 ELSE s
                       IN do_da_members(s1, rhs, off1, delta, i + 1)
          ELSE do_da_members(s, rhs, off1, delta, i + 1)

\* do_da_constraint stopping after the first member of delta.
do_da_constraint_first_member(s, c, delta) ==
  do_da_members(s, c.rhs.var, c.lhs.offset,
                IF delta = {} THEN << >> ELSE << Min(delta) >>, 1)

do_da_constraint(s, c, delta) ==
  do_da_members(s, c.rhs.var, c.lhs.offset, SetToSortedSeq(delta), 1)

RECURSIVE do_sd_members(_, _, _, _, _, _)
\* x = *y over the members delta[i..] of Sol(y).
do_sd_members(s, lhs, roffset, flag, delta, i) ==
  IF s.err # "" THEN s
  ELSE IF i > Len(delta)
  THEN IF flag THEN mark_changed(s, lhs) ELSE s
  ELSE LET j == delta[i]
           off1 == type_safe_offset(s, j, roffset)
       IN IF type_safe(s, j, roffset)
          THEN LET fieldoffset == s.varmap[j].offset + off1
                   v == first_vi_for_offset(s, j, fieldoffset)
               IN IF v = NoVar THEN Fail(s, "first_vi_for_offset")
                  ELSE LET t == s.varmap[v].node
                           s1 == int_add_graph_edge(s, lhs, t, 0)
                       IN IF int_add_graph_edge_added(s, lhs, t, 0)
                          THEN do_sd_members(
                                 [ s1 EXCEPT !.varmap[lhs].solution =
                                               @ \cup s1.varmap[t].solution ],
                                 lhs, off1,
                                 flag \/ ~(s1.varmap[t].solution
                                             \subseteq s1.varmap[lhs].solution),
                                 delta, i + 1)
                          ELSE do_sd_members(s1, lhs, off1, flag, delta, i + 1)
          ELSE do_sd_members(s, lhs, off1, flag, delta, i + 1)

\* do_sd_constraint reading, for each member of delta, also the field that
\* follows it in its field list.
do_sd_constraint_all_fields(s, c, delta) ==
  do_sd_members(s, s.varmap[c.lhs.var].node, c.rhs.offset, FALSE,
                SetToSortedSeq(delta \cup ({ s.varmap[j].next : j \in delta }
                                             \ { NoVar })), 1)

\* do_sd_constraint with flag starting out true.
do_sd_constraint_flag_set(s, c, delta) ==
  do_sd_members(s, s.varmap[c.lhs.var].node, c.rhs.offset, TRUE,
                SetToSortedSeq(delta), 1)

do_sd_constraint(s, c, delta) ==
  do_sd_members(s, s.varmap[c.lhs.var].node, c.rhs.offset, FALSE,
                SetToSortedSeq(delta), 1)

RECURSIVE do_ds_members(_, _, _, _, _, _)
\* *x = y over the members delta[i..] of Sol(x); Sol(y) is read at each use.
do_ds_members(s, rhs, loff, roff, delta, i) ==
  IF i > Len(delta) \/ s.err # "" THEN s
  ELSE LET j == delta[i]
           off1 == type_safe_offset(s, j, loff)
       IN IF type_safe(s, j, loff)
          THEN LET fieldoffset == s.varmap[j].offset + off1
                   v == first_vi_for_offset(s, j, fieldoffset)
               IN IF v = NoVar THEN Fail(s, "first_vi_for_offset")
                  ELSE LET t == s.varmap[v].node
                           s1 == int_add_graph_edge(s, t, rhs, roff)
                           tmp == set_union_with_increment(s1,
                                    s1.varmap[t].solution,
                                    s1.varmap[rhs].solution, roff)
                       IN IF int_add_graph_edge_added(s, t, rhs, roff)
                          THEN IF NoVar \in tmp
                               THEN Fail(s1, "first_vi_for_offset")
                               ELSE IF tmp # s1.varmap[t].solution
                               THEN do_ds_members(
                                      mark_changed(
                                        [ s1 EXCEPT !.varmap[t].solution = tmp ],
                                        t),
                                      rhs, off1, roff, delta, i + 1)
                               ELSE do_ds_members(s1, rhs, off1, roff, delta, i + 1)
                          ELSE do_ds_members(s1, rhs, off1, roff, delta, i + 1)
          ELSE do_ds_members(s, rhs, off1, roff, delta, i + 1)

\* do_ds_constraint adding its edges with weight 0 whatever the offset of y.
do_ds_constraint_weight_zero(s, c, delta) ==
  do_ds_members(s, s.varmap[c.rhs.var].node, c.lhs.offset, 0,
                SetToSortedSeq(delta), 1)

do_ds_constraint(s, c, delta) ==
  do_ds_members(s, s.varmap[c.rhs.var].node, c.lhs.offset, c.rhs.offset,
                SetToSortedSeq(delta), 1)

\* do_complex_constraint leaving x = *y constraints alone.
do_complex_constraint_no_load(s, c, delta) ==
  IF c.lhs.type = DEREF
  THEN IF c.rhs.type = ADDRESSOF
       THEN do_da_constraint(s, c, delta)
       ELSE do_ds_constraint(s, c, delta)
  ELSE s

do_complex_constraint(s, c, delta) ==
  IF c.lhs.type = DEREF
  THEN IF c.rhs.type = ADDRESSOF
       THEN do_da_constraint(s, c, delta)
       ELSE do_ds_constraint(s, c, delta)
  ELSE do_sd_constraint(s, c, delta)

\* ------------------------------------------------------------------------
\* Offline variable substitution
\* ------------------------------------------------------------------------

bitmap_other_than_zero_bit_set(b) ==
  IF b = {} THEN FALSE ELSE \E i \in b : i >= 1

RECURSIVE subst_preds_no_subset(_, _, _, _, _, _)
\* The loop over the predecessors of I without the comparison of solutions.
subst_preds_no_subset(s, i, predvec, pred, okay_to_elim, root) ==
  IF pred > Len(predvec) THEN [ okay |-> okay_to_elim, root |-> root ]
  ELSE LET ce == predvec[pred]
           weight == s.bitmaps[get_graph_weights(s, ce)]
           w == s.varmap[ce.dest].node
       IN IF bitmap_other_than_zero_bit_set(weight)
          THEN [ okay |-> FALSE, root |-> root ]
          ELSE IF okay_to_elim /\ w # root
          THEN [ okay |-> FALSE, root |-> root ]
          ELSE subst_preds_no_subset(s, i, predvec, pred + 1, TRUE, w)

RECURSIVE subst_preds(_, _, _, _, _, _)
\* The loop over the predecessors of I from position pred on; the result is
\* the pair of okay_to_elim and root.
subst_preds(s, i, predvec, pred, okay_to_elim, root) ==
  IF pred > Len(predvec) THEN [ okay |-> okay_to_elim, root |-> root ]
  ELSE LET ce == predvec[pred]
           weight == s.bitmaps[get_graph_weights(s, ce)]
           w == s.varmap[ce.dest].node
       IN IF bitmap_other_than_zero_bit_set(weight)
          THEN [ okay |-> FALSE, root |-> root ]
          ELSE IF okay_to_elim /\ w # root
          THEN [ okay |-> FALSE, root |-> root ]
          ELSE IF (s.varmap[i].solution \ s.varmap[w].solution) # {}
          THEN [ okay |-> FALSE, root |-> w ]
          ELSE subst_preds(s, i, predvec, pred + 1, TRUE, w)

\* The turn of perform_var_substitution that folds i into the node of its
\* first predecessor whatever the others are.
var_substitution_visit_first_pred(s, i) ==
  LET vi == s.varmap[i]
      predvec == s.graph.preds[i]
      root == IF Len(predvec) = 0 THEN Cardinality(DOMAIN s.varmap)
              ELSE s.varmap[predvec[1].dest].node
  IN IF vi.address_taken \/ vi.indirect_target THEN s
     ELSE IF root # s.varmap[i].node /\ Len(predvec) > 0
     THEN [ collapse_nodes([ s EXCEPT !.varmap[i].node = root ], root, i)
              EXCEPT !.stats.collapsed_vars = @ + 1 ]
     ELSE s

\* The turn of perform_var_substitution that never finds i okay to
\* eliminate.
var_substitution_visit_never_okay(s, i) == s

\* One turn of the loop of perform_var_substitution, for the popped node i.
var_substitution_visit(s, i) ==
  LET vi == s.varmap[i]
      predvec == s.graph.preds[i]
  IN IF vi.address_taken \/ vi.indirect_target THEN s
     ELSE LET r == subst_preds(s, i, predvec, 1, FALSE,
                               Cardinality(DOMAIN s.varmap))
          IN IF r.root # s.varmap[i].node /\ r.okay
             THEN [ collapse_nodes([ s EXCEPT !.varmap[i].node = r.root ],
                                   r.root, i)
                      EXCEPT !.stats.collapsed_vars = @ + 1 ]
             ELSE s

\* ------------------------------------------------------------------------
\* Solver
\* ------------------------------------------------------------------------

\* solve_graph counting the collapsed nodes among the changed ones.
solve_graph_init_count_all(s) ==
  [ s EXCEPT !.changed = DOMAIN s.varmap,
             !.changed_count = Cardinality(DOMAIN s.varmap) ]

\* solve_graph starting with the bits of the representatives only.
solve_graph_init_reps_only(s) ==
  LET reps == { i \in DOMAIN s.varmap : s.varmap[i].node = i }
  IN [ s EXCEPT !.changed = reps, !.changed_count = Cardinality(reps) ]

\* solve_graph up to its loop.
solve_graph_init(s) ==
  LET size == Cardinality(DOMAIN s.varmap)
      collapsed == { i \in DOMAIN s.varmap : s.varmap[i].node # i }
  IN [ s EXCEPT !.changed = DOMAIN s.varmap,
                !.changed_count = size - Cardinality(collapsed) ]

\* The head of one iteration of the loop of solve_graph, up to the
\* computation of the topological order.
\* The loop of solve_graph clearing edge_added without looking for cycles.
solve_iteration_begin_no_detection(s) ==
  [ s EXCEPT !.stats.iterations = IF @ < MaxIterations THEN @ + 1 ELSE @,
             !.edge_added = FALSE ]

solve_iteration_begin(s) ==
  LET s1 == [ s EXCEPT !.stats.iterations =
                 IF @ < MaxIterations THEN @ + 1 ELSE @ ]
  IN IF s1.edge_added
     THEN LET s2 == IF s1.stats.iterations > 1
                    THEN find_and_collapse_graph_cycles(s1, TRUE)
                    ELSE s1
          IN [ s2 EXCEPT !.edge_added = FALSE ]
     ELSE s1

RECURSIVE propagate_weights(_, _, _, _, _)
\* flag |= set_union_with_increment (tmp, solution, k) for the weights
\* ks[n..] of one edge from i to dest.
propagate_weights(s, i, dest, ks, n) ==
  IF n > Len(ks) \/ s.err # "" THEN s
  ELSE LET tmp == set_union_with_increment(s, s.varmap[dest].solution,
                                           s.varmap[i].solution, ks[n])
       IN IF NoVar \in tmp THEN Fail(s, "first_vi_for_offset")
          ELSE propagate_weights([ s EXCEPT !.varmap[dest].solution = tmp ],
                                 i, dest, ks, n + 1)

\* The edge propagated without marking its destination changed.
propagate_edge_unmarked(s, i, e) ==
  LET weights == s.bitmaps[e.weights]
  IN IF weights = {} THEN Fail(s, "solve_graph")
     ELSE propagate_weights(s, i, e.dest, SetToSortedSeq(weights), 1)

\* Propagate the solution of i along its successor edge e.
propagate_edge(s, i, e) ==
  LET weights == s.bitmaps[e.weights]
  IN IF weights = {} THEN Fail(s, "solve_graph")
     ELSE LET s1 == propagate_weights(s, i, e.dest, SetToSortedSeq(weights), 1)
          IN IF s1.err = "" /\ s1.varmap[e.dest].solution
                                 # s.varmap[e.dest].solution
             THEN mark_changed(s1, e.dest)
             ELSE s1

\* ------------------------------------------------------------------------
\* Inputs: the variables of the analysed function and the constraints the
\* front end emits for it
\* ------------------------------------------------------------------------

\* Three pointer-sized scalars a, b, c and a structure s of two
\* pointer-sized fields, created after the four base variables.
Va == integer_id + 1
Vb == integer_id + 2
Vc == integer_id + 3
Vs0 == integer_id + 4
Vs1 == integer_id + 5

create_variables(s) ==
  LET s1 == create_variable_info_for(s, PointerSize)
      s2 == create_variable_info_for(s1, PointerSize)
      s3 == create_variable_info_for(s2, PointerSize)
  IN create_structure_info_for(s3, 2 * PointerSize,
       << [ offset |-> 0, size |-> PointerSize ],
          [ offset |-> PointerSize, size |-> PointerSize ] >>)

Sc(v) == Expr(SCALAR, v, 0)
ScOff(v, o) == Expr(SCALAR, v, o)
De(v) == Expr(DEREF, v, 0)
DeOff(v, o) == Expr(DEREF, v, o)
Ad(v) == Expr(ADDRESSOF, v, 0)

\* The constraints inputs are drawn from.
Universe ==
  << new_constraint(Sc(Va), Ad(Vb)),
     new_constraint(Sc(Vb), Ad(Va)),
     new_constraint(Sc(Vc), Ad(Va)),
     new_constraint(Sc(Vc), Ad(Vb)),
     new_constraint(Sc(Vc), Ad(Vs0)),
     new_constraint(Sc(Vs0), Ad(Va)),
     new_constraint(Sc(Vs1), Ad(Vb)),
     new_constraint(Sc(Va), Ad(anything_id)),
     new_constraint(Sc(Va), Sc(Vb)),
     new_constraint(Sc(Vb), Sc(Va)),
     new_constraint(Sc(Va), Sc(Vc)),
     new_constraint(Sc(Vc), Sc(Va)),
     new_constraint(Sc(Vb), Sc(Vc)),
     new_constraint(Sc(Vc), Sc(readonly_id)),
     new_constraint(Sc(Va), ScOff(Vs0, PointerSize)),
     new_constraint(Sc(Vb), De(Vc)),
     new_constraint(Sc(Vc), De(Vb)),
     new_constraint(Sc(Va), DeOff(Vc, PointerSize)),
     new_constraint(De(Vc), Sc(Va)),
     new_constraint(De(Vc), ScOff(Vs0, PointerSize)),
     new_constraint(De(Vb), Sc(Va)),
     new_constraint(De(Vc), Ad(Vc)),
     new_constraint(De(Vb), Ad(Vc)),
     new_constraint(DeOff(Vc, PointerSize), Ad(Vb)),
     new_constraint(DeOff(Vc, PointerSize), Sc(Vb)) >>

\* Longer inputs kept whatever MaxConstraints is.
Scenarios ==
  { \* a static cycle a <-> b fed by c, with &b taken and a store through c
    << new_constraint(Sc(Vc), Ad(Vb)),
       new_constraint(Sc(Va), Sc(Vb)),
       new_constraint(Sc(Vb), Sc(Va)),
       new_constraint(Sc(Va), Sc(Vc)),
       new_constraint(De(Vc), Ad(Vc)) >>,
    \* s.f0 = &a; s.f1 = &b; c = &s.f0; b = *c
    << new_constraint(Sc(Vc), Ad(Vs0)),
       new_constraint(Sc(Vs0), Ad(Va)),
       new_constraint(Sc(Vs1), Ad(Vb)),
       new_constraint(Sc(Vb), De(Vc)) >>,
    \* a = b; b = a; s.f0 = a; a = s.f0 + 32: a zero-weight cycle next to a
    \* cycle closed by a weight other than 0
    << new_constraint(Sc(Va), Sc(Vb)),
       new_constraint(Sc(Vb), Sc(Va)),
       new_constraint(Sc(Vs0), Sc(Va)),
       new_constraint(Sc(Va), ScOff(Vs0, PointerSize)) >>,
    \* the same cycle, its zero-weight edge added by the store *c = a
    << new_constraint(Sc(Vc), Ad(Vs0)),
       new_constraint(Sc(Vs0), Ad(Vs0)),
       new_constraint(Sc(Va), ScOff(Vs0, PointerSize)),
       new_constraint(De(Vc), Sc(Va)) >>,
    \* c = &a; s.f0 = &s.f0; *c = s.f0 + 32: a store of a shifted set
    << new_constraint(Sc(Vc), Ad(Va)),
       new_constraint(Sc(Vs0), Ad(Vs0)),
       new_constraint(De(Vc), ScOff(Vs0, PointerSize)) >>,
    \* a = b; b = a; c = *a; c = *b; *b = a: both ends of a cycle are
    \* dereferenced, twice by loads that are equal once a and b are one node
    << new_constraint(Sc(Va), Sc(Vb)),
       new_constraint(Sc(Vb), Sc(Va)),
       new_constraint(Sc(Vc), De(Va)),
       new_constraint(Sc(Vc), De(Vb)),
       new_constraint(De(Vb), Sc(Va)) >>,
    \* a = &b; a = &c; b = c; *a = b; *a = &a: the store closes the cycle
    \* b <-> c while both of its nodes are marked changed
    << new_constraint(Sc(Va), Ad(Vb)),
       new_constraint(Sc(Va), Ad(Vc)),
       new_constraint(Sc(Vb), Sc(Vc)),
       new_constraint(De(Va), Sc(Vb)),
       new_constraint(De(Va), Ad(Va)) >>,
    \* a = s.f0; s.f0 = a; a = s.f0 + 32: a cycle one of whose edges has
    \* the weights 0 and 32
    << new_constraint(Sc(Va), Sc(Vs0)),
       new_constraint(Sc(Vs0), Sc(Va)),
       new_constraint(Sc(Va), ScOff(Vs0, PointerSize)) >>,
    \* a = &b; b = a; c = b; c = &s.f0: a chain of two copy edges that the
    \* variable substitution leaves alone
    << new_constraint(Sc(Va), Ad(Vb)),
       new_constraint(Sc(Vb), Sc(Va)),
       new_constraint(Sc(Vc), Sc(Vb)),
       new_constraint(Sc(Vc), Ad(Vs0)) >> }

\* The inputs: every selection of at most MaxConstraints constraints of
\* Universe, in the order of Universe, and the scenarios.
InputLists ==
  { [ k \in DOMAIN sel |-> Universe[sel[k]] ] :
      sel \in { f \in UNION { [ 1..n -> 1..Len(Universe) ] : n \in 0..MaxConstraints } :
                  \A p, q \in DOMAIN f : p < q => f[p] < f[q] } }
  \cup Scenarios

\* The state in which create_alias_vars calls build_constraint_graph.
front_end(cs) ==
  process_constraints(create_variables(init_base_vars), cs, 1)

\* ------------------------------------------------------------------------
\* The pass as a machine: the program state m.s, the position m.pc in
\* create_alias_vars / solve_graph and the locals that live across steps
\* ------------------------------------------------------------------------

Halt(m) == IF m.s.err # "" THEN [ m EXCEPT !.pc = "abort" ] ELSE m

m_build(m) ==
  Halt([ m EXCEPT !.s = build_constraint_graph(m.s), !.pc = "built" ])

m_static_cycles(m) ==
  Halt([ m EXCEPT !.s = find_and_collapse_graph_cycles(m.s, FALSE),
                  !.pc = "collapsed" ])

m_subst_begin(m) ==
  [ m EXCEPT !.topo_order = compute_topo_order(m.s), !.pc = "subst" ]

m_subst_visit(m) ==
  LET n == Len(m.topo_order)
      i == m.topo_order[n]
  IN Halt([ m EXCEPT !.topo_order = SubSeq(@, 1, n - 1),
                     !.s = var_substitution_visit(m.s, i) ])

m_solve_begin(m) ==
  [ m EXCEPT !.s = solve_graph_init(m.s), !.pc = "loop", !.runs = @ + 1 ]

m_iter_begin(m) ==
  LET s1 == solve_iteration_begin(m.s)
  IN Halt([ m EXCEPT !.s = s1,
                     !.topo_order = IF s1.err = "" THEN compute_topo_order(s1)
                                    ELSE << >>,
                     !.pc = "iter" ])

\* Where the visit of node i continues once its complex constraints from
\* position pos on are done.
after_complex(m, i, pos) ==
  IF pos <= Len(m.s.varmap[i].complex)
  THEN [ m EXCEPT !.pc = "complex", !.cur = i, !.pos = pos ]
  ELSE IF Len(m.s.graph.succs[i]) > 0
  THEN [ m EXCEPT !.pc = "propagate", !.cur = i, !.pos = 1 ]
  ELSE [ m EXCEPT !.pc = "iter", !.cur = NoVar, !.pos = 0 ]

\* Take the node at position k of the topological order (the code pops the
\* last one) and start its visit.
m_visit_at(m, k) ==
  LET i == m.topo_order[k]
      m1 == [ m EXCEPT !.topo_order = VEC_ordered_remove(@, k) ]
  IN IF m.s.varmap[i].node # i
     THEN Halt([ m1 EXCEPT !.s = Fail(@, "solve_graph") ])
     ELSE IF i \in m.s.changed
     THEN after_complex([ m1 EXCEPT !.s.changed = @ \ { i },
                                    !.s.changed_count = @ - 1 ], i, 1)
     ELSE m1

m_visit(m) == m_visit_at(m, Len(m.topo_order))

m_complex(m) ==
  LET i == m.cur
      c == m.s.constraints[m.s.varmap[i].complex[m.pos]]
      s1 == do_complex_constraint(m.s, c, m.s.varmap[i].solution)
  IN Halt(after_complex([ m EXCEPT !.s = s1 ], i, m.pos + 1))

m_propagate(m) ==
  LET i == m.cur
      succs == m.s.graph.succs[i]
      s1 == propagate_edge(m.s, i, succs[m.pos])
  IN Halt(IF m.pos < Len(succs)
          THEN [ m EXCEPT !.s = s1, !.pos = @ + 1 ]
          ELSE [ m EXCEPT !.s = s1, !.pc = "iter", !.cur = NoVar, !.pos = 0 ])

m_iter_end(m) == [ m EXCEPT !.pc = "loop" ]

m_solve_end(m) ==
  [ m EXCEPT !.pc = "solved", !.have_alias_info = TRUE ]

\* The points-to set of v, read through its representative.
PointsTo(s, v) == s.varmap[s.varmap[v].node].solution

\* ------------------------------------------------------------------------
\* Trees and the query find_what_p_points_to
\* ------------------------------------------------------------------------

\* A tree is named by the id create_variable_info_for gave its base variable;
\* UnknownTree is a pointer no variable was made for.
UnknownTree == 50

\* The label `lab`, made after the structure s when its address is taken.
Vlab == Vs1 + 1

\* The pointers find_what_p_points_to is asked about.
QueryTrees == { readonly_id, Va, Vb, Vc, Vs0, Vlab, UnknownTree }

NoQuery == [ p |-> NoVar, ret |-> FALSE, read |-> FALSE ]

\* ------------------------------------------------------------------------
\* State
\* ------------------------------------------------------------------------

VARIABLES
  input,            \* the constraints handed to process_constraint
  varmap, constraints, graph, bitmaps, edge_added,
  changed, changed_count, stats, err,
  topo_order,       \* ti->topo_order of the running loop
  cur, pos,         \* the node being visited and the position j in its loop
  pc,               \* position in create_alias_vars / solve_graph
  have_alias_info,
  runs,             \* number of calls of solve_graph so far
  first_pt,         \* the points-to sets the first call of solve_graph left
  query,            \* the last call of find_what_p_points_to and its result
  pt_vars           \* pi->pt_vars of each pointer asked about

vars == << input, varmap, constraints, graph, bitmaps, edge_added,
           changed, changed_count, stats, err, topo_order, cur, pos,
           pc, have_alias_info, runs, first_pt, query, pt_vars >>

St ==
  [ varmap |-> varmap, constraints |-> constraints, graph |-> graph,
    bitmaps |-> bitmaps, edge_added |-> edge_added, changed |-> changed,
    changed_count |-> changed_count, stats |-> stats, err |-> err ]

M ==
  [ s |-> St, pc |-> pc, topo_order |-> topo_order, cur |-> cur, pos |-> pos,
    have_alias_info |-> have_alias_info, runs |-> runs ]

\* The machine create_alias_vars starts build_constraint_graph in.
StartMachine(cs) ==
  [ s |-> front_end(cs), pc |-> "start", topo_order |-> << >>,
    cur |-> NoVar, pos |-> 0, have_alias_info |-> FALSE, runs |-> 0 ]

Becomes(m) ==
  /\ varmap' = m.s.varmap
  /\ constraints' = m.s.constraints
  /\ graph' = m.s.graph
  /\ bitmaps' = m.s.bitmaps
  /\ edge_added' = m.s.edge_added
  /\ changed' = m.s.changed
  /\ changed_count' = m.s.changed_count
  /\ stats' = m.s.stats
  /\ err' = m.s.err
  /\ topo_order' = m.topo_order
  /\ cur' = m.cur
  /\ pos' = m.pos
  /\ pc' = m.pc
  /\ have_alias_info' = m.have_alias_info
  /\ runs' = m.runs

Init ==
  \E cs \in InputLists :
    LET m == StartMachine(cs)
    IN /\ input = cs
       /\ varmap = m.s.varmap
       /\ constraints = m.s.constraints
       /\ graph = m.s.graph
       /\ bitmaps = m.s.bitmaps
       /\ edge_added = m.s.edge_added
       /\ changed = m.s.changed
       /\ changed_count = m.s.changed_count
       /\ stats = m.s.stats
       /\ err = m.s.err
       /\ topo_order = m.topo_order
       /\ cur = m.cur
       /\ pos = m.pos
       /\ pc = m.pc
       /\ have_alias_info = m.have_alias_info
       /\ runs = m.runs
       /\ first_pt = << >>
       /\ query = NoQuery
       /\ pt_vars = [ p \in QueryTrees |-> {} ]

BuildGraph ==
  /\ pc = "start"
  /\ Becomes(m_build(M))
  /\ UNCHANGED << input, first_pt, query, pt_vars >>

StaticCycles ==
  /\ pc = "built"
  /\ Becomes(m_static_cycles(M))
  /\ UNCHANGED << input, first_pt, query, pt_vars >>

SubstBegin ==
  /\ pc = "collapsed"
  /\ Becomes(m_subst_begin(M))
  /\ UNCHANGED << input, first_pt, query, pt_vars >>

SubstVisit ==
  /\ pc = "subst"
  /\ Len(topo_order) # 0
  /\ Becomes(m_subst_visit(M))
  /\ UNCHANGED << input, first_pt, query, pt_vars >>

SolveBegin ==
  /\ pc = "subst"
  /\ Len(topo_order) = 0
  /\ Becomes(m_solve_begin(M))
  /\ UNCHANGED << input, first_pt, query, pt_vars >>

IterBegin ==
  /\ pc = "loop"
  /\ changed_count # 0
  /\ Becomes(m_iter_begin(M))
  /\ UNCHANGED << input, first_pt, query, pt_vars >>

VisitNode ==
  /\ pc = "iter"
  /\ Len(topo_order) # 0
  /\ Becomes(m_visit(M))
  /\ UNCHANGED << input, first_pt, query, pt_vars >>

ComplexStep ==
  /\ pc = "complex"
  /\ Becomes(m_complex(M))
  /\ UNCHANGED << input, first_pt, query, pt_vars >>

PropagateEdge ==
  /\ pc = "propagate"
  /\ Becomes(m_propagate(M))
  /\ UNCHANGED << input, first_pt, query, pt_vars >>

IterEnd ==
  /\ pc = "iter"
  /\ Len(topo_order) = 0
  /\ Becomes(m_iter_end(M))
  /\ UNCHANGED << input, first_pt, query, pt_vars >>

SolveEnd ==
  /\ pc = "loop"
  /\ changed_count = 0
  /\ Becomes(m_solve_end(M))
  /\ first_pt' = IF runs = 1
                 THEN [ v \in DOMAIN varmap |-> PointsTo(St, v) ]
                 ELSE first_pt
  /\ UNCHANGED << input, query, pt_vars >>

Next ==
  \/ BuildGraph
  \/ StaticCycles
  \/ SubstBegin
  \/ SubstVisit
  \/ SolveBegin
  \/ IterBegin
  \/ VisitNode
  \/ ComplexStep
  \/ PropagateEdge
  \/ IterEnd
  \/ SolveEnd

Spec == Init /\ [][Next]_vars

\* create_alias_vars runs on one thread that is not suspended for ever:
\* weak fairness of Next.  A step of Next is enabled exactly in the states
\* where the pass is still running, so WF_vars(Next) is written with
\* Running in the place of ENABLED <<Next>>_vars.
Running == pc \notin { "solved", "abort" }

FairSpec == Spec /\ (<>[]Running => []<><<Next>>_vars)

NoFailure == err = ""

\* ------------------------------------------------------------------------
\* Whole runs, for the claims that compare two runs on the same input
\* ------------------------------------------------------------------------

\* The step the pass takes from machine m.
Step(m) ==
  CASE m.pc = "start" -> m_build(m)
    [] m.pc = "built" -> m_static_cycles(m)
    [] m.pc = "collapsed" -> m_subst_begin(m)
    [] m.pc = "subst" /\ Len(m.topo_order) # 0 -> m_subst_visit(m)
    [] m.pc = "subst" /\ Len(m.topo_order) = 0 -> m_solve_begin(m)
    [] m.pc = "loop" /\ m.s.changed_count # 0 -> m_iter_begin(m)
    [] m.pc = "loop" /\ m.s.changed_count = 0 -> m_solve_end(m)
    [] m.pc = "iter" /\ Len(m.topo_order) # 0 -> m_visit(m)
    [] m.pc = "iter" /\ Len(m.topo_order) = 0 -> m_iter_end(m)
    [] m.pc = "complex" -> m_complex(m)
    [] m.pc = "propagate" -> m_propagate(m)
    [] OTHER -> m

RECURSIVE RunToEnd(_)
\* The machine create_alias_vars ends in.
RunToEnd(m) ==
  IF m.pc \in { "solved", "abort" } THEN m ELSE RunToEnd(Step(m))

\* The pass without static cycle collapse and offline substitution:
\* build_constraint_graph followed directly by solve_graph.
RunWithoutSubstitution(cs) ==
  LET built == m_build(StartMachine(cs))
  IN IF built.pc = "abort" THEN built
     ELSE RunToEnd(m_solve_begin(built))

RECURSIVE RunOldestFirst(_)
\* The pass when each solver iteration visits the nodes of the topological
\* order from its first element to its last, the reverse of the code.
RunOldestFirst(m) ==
  IF m.pc \in { "solved", "abort" } THEN m
  ELSE IF m.pc = "iter" /\ Len(m.topo_order) # 0
  THEN RunOldestFirst(m_visit_at(m, 1))
  ELSE RunOldestFirst(Step(m))

PointsToSets(s) == [ v \in DOMAIN s.varmap |-> PointsTo(s, v) ]

\* ------------------------------------------------------------------------
\* Calling solve_graph again on the graph a completed call left
\* ------------------------------------------------------------------------

\* Number of calls of solve_graph explored.
MaxRuns == 2

SolveAgain ==
  /\ pc = "solved"
  /\ runs < MaxRuns
  /\ Becomes(m_solve_begin(M))
  /\ UNCHANGED << input, first_pt, query, pt_vars >>

SpecTwice == Init /\ [][Next \/ SolveAgain]_vars

\* ------------------------------------------------------------------------
\* Properties
\* ------------------------------------------------------------------------

IsRep(v) == varmap[v].node = v

IsOrdinary(v) ==
  /\ v > anything_id
  /\ ~varmap[v].is_artificial_var
  /\ ~varmap[v].is_unknown_size_var

InSolver == pc \in { "loop", "iter", "complex", "propagate" }

\* C1: across every step of solve_graph (the head of an iteration with its
\* dynamic cycle unification, the start of a node visit, one complex
\* constraint, one successor edge) the points-to set of every variable, read
\* through its representative, keeps all its members.
C1_Monotonicity ==
  [][ InSolver =>
        \A v \in DOMAIN varmap :
          varmap[varmap[v].node].solution
            \subseteq varmap'[varmap'[v].node].solution ]_vars

\* A solved state in which dynamic unification has folded a node and the
\* solver has put a member into the set of a variable that no x = &y
\* constraint names on its left.
C1_Witness ==
  /\ pc = "solved"
  /\ stats.unified_vars_dynamic > 0
  /\ \E v \in DOMAIN varmap :
       /\ PointsTo(St, v) # {}
       /\ \A k \in DOMAIN input :
            ~(input[k].lhs.var = v /\ input[k].rhs.type = ADDRESSOF)

\* C2: solve_graph terminates: every run reaches the exit of its loop with
\* changed_count == 0.
C2_Termination == <>(pc = "solved" /\ changed_count = 0)

\* A run that unified a cycle while solving and needed a further iteration
\* to finish.
C2_Witness ==
  /\ pc = "solved"
  /\ changed_count = 0
  /\ stats.iterations >= 2
  /\ stats.unified_vars_dynamic > 0

\* C3: whenever a whole operation has finished, every variable that is not
\* its own representative has an empty solution and is a member of the
\* variables set of its representative.
C3_RepresentativeConsistency ==
  \A u \in DOMAIN varmap :
    ~IsRep(u) =>
      /\ varmap[u].solution = {}
      /\ u \in varmap[varmap[u].node].variables

\* A state after substitution and dynamic unification where some
\* representative stands for two other variables.
C3_Witness ==
  /\ pc \in { "iter", "loop", "solved" }
  /\ \E u, v \in DOMAIN varmap :
       /\ u # v
       /\ ~IsRep(u)
       /\ ~IsRep(v)
       /\ varmap[u].node = varmap[v].node
  /\ stats.unified_vars_dynamic + stats.collapsed_vars > 0

HasEntry(vec, d) == \E k \in DOMAIN vec : vec[k].dest = d

\* C4: preds[x] holds an entry for y exactly when succs[y] holds an entry
\* for x; the two entries point to the same weights bitmap, and that bitmap
\* is not empty.
C4_EdgeCanonicality ==
  pc # "start" =>
    \A x, y \in DOMAIN varmap :
      /\ HasEntry(graph.preds[x], y) <=> HasEntry(graph.succs[y], x)
      /\ \A p \in DOMAIN graph.preds[x] : \A q \in DOMAIN graph.succs[y] :
           (graph.preds[x][p].dest = y /\ graph.succs[y][q].dest = x) =>
             /\ graph.preds[x][p].weights = graph.succs[y][q].weights
             /\ bitmaps[graph.preds[x][p].weights] # {}

\* A solved state whose graph has gone through the merging of a node and
\* still has an edge, one of them added by a complex constraint.
C4_Witness ==
  /\ pc = "solved"
  /\ stats.unified_vars_static + stats.unified_vars_dynamic
       + stats.collapsed_vars > 0
  /\ \E x \in DOMAIN varmap : Len(graph.preds[x]) > 0
  /\ \E k \in DOMAIN input :
       input[k].lhs.type = DEREF \/ input[k].rhs.type = DEREF

\* C5: when a second call of solve_graph has finished, every variable has
\* the points-to set the first call left it with.
C5_IdempotentResults ==
  (runs >= 2 /\ pc = "solved") =>
    \A v \in DOMAIN varmap : PointsTo(St, v) = first_pt[v]

\* The end of a second call on a graph with complex constraints whose first
\* call took more than one iteration.
C5_Witness ==
  /\ runs >= 2
  /\ pc = "solved"
  /\ \E v \in DOMAIN varmap : v > integer_id /\ first_pt[v] # {}
  /\ \E v \in DOMAIN varmap : Len(varmap[v].complex) > 0

\* C6 as stated: a second call of solve_graph starts with no changed bit set
\* and visits no node's complex constraints or outgoing edges.
C6_SecondCallDoesNoWork ==
  runs >= 2 => (changed = {} /\ pc \notin { "complex", "propagate" })

\* C6 as amended: a second call sets the changed bit of every representative
\* when it starts and visits each of them, but no step of it sets another
\* changed bit or changes the points-to set of any variable.
C6_SecondCallChangesNothing ==
  [][ (runs >= 2 /\ runs' = runs) =>
        /\ changed' \subseteq changed
        /\ \A v \in DOMAIN varmap :
             varmap'[varmap'[v].node].solution
               = varmap[varmap[v].node].solution ]_vars

\* A second call in the middle of the visit of a node with a complex
\* constraint, its own changed bit already cleared.
C6_Witness ==
  /\ runs >= 2
  /\ pc = "complex"
  /\ cur \notin changed
  /\ changed # {}

\* C7 as stated: static cycle collapse and perform_var_substitution before
\* solve_graph leave every variable with the points-to set that solving the
\* same constraints without them gives.
C7_SubstitutionSound ==
  pc = "solved" =>
    PointsToSets(St) = PointsToSets(RunWithoutSubstitution(input).s)

\* C8 as stated: visiting the nodes of each iteration in the opposite order
\* ends in the same points-to set for every variable.
C8_Confluence ==
  pc = "solved" =>
    PointsToSets(St) = PointsToSets(RunOldestFirst(StartMachine(input)).s)

IsAddrOf(c) ==
  /\ c.lhs.type = SCALAR /\ c.lhs.offset = 0
  /\ c.rhs.type = ADDRESSOF /\ c.rhs.offset = 0
  /\ c.lhs.var \in { Va, Vb, Vc }
  /\ c.rhs.var \in { Va, Vb, Vc }

IsCopy(c) ==
  /\ c.lhs.type = SCALAR /\ c.lhs.offset = 0
  /\ c.rhs.type = SCALAR /\ c.rhs.offset = 0
  /\ c.lhs.var \in { Va, Vb, Vc }
  /\ c.rhs.var \in { Va, Vb, Vc }

AddrCopyOnly(cs) == \A k \in DOMAIN cs : IsAddrOf(cs[k]) \/ IsCopy(cs[k])

RECURSIVE CopyClosure(_, _)
\* The variables a chain of copy constraints of cs leads to from those of S.
CopyClosure(cs, S) ==
  LET T == S \cup { cs[k].lhs.var : k \in { i \in DOMAIN cs :
                      IsCopy(cs[i]) /\ cs[i].rhs.var \in S } }
  IN IF T = S THEN S ELSE CopyClosure(cs, T)

AddrCopyExpected(cs, v) ==
  { cs[k].rhs.var : k \in { i \in DOMAIN cs :
      IsAddrOf(cs[i]) /\ v \in CopyClosure(cs, { cs[i].lhs.var }) } }

\* C9: when the input holds only x = &y and zero-offset copies x = y over
\* the whole variables a, b, c, the pass ends with pt(v) equal to the set of
\* y for which some u = &y exists with a chain of copies from u to v.
C9_AddressOfCopyExact ==
  (pc = "solved" /\ AddrCopyOnly(input)) =>
    \A v \in { Va, Vb, Vc } : PointsTo(St, v) = AddrCopyExpected(input, v)

\* Such an input after the pass, where substitution has folded a variable
\* and a variable with no x = &y of its own has received a member by copy.
C9_Witness ==
  /\ pc = "solved"
  /\ AddrCopyOnly(input)
  /\ stats.collapsed_vars > 0
  /\ \E v \in { Va, Vb, Vc } :
       /\ PointsTo(St, v) # {}
       /\ \A k \in DOMAIN input :
            IsAddrOf(input[k]) => input[k].lhs.var # v

IsLoad0(c) ==
  /\ c.lhs.type = SCALAR /\ c.lhs.offset = 0
  /\ c.rhs.type = DEREF /\ c.rhs.offset = 0

IsStoreAddr0(c) ==
  /\ c.lhs.type = DEREF /\ c.lhs.offset = 0
  /\ c.rhs.type = ADDRESSOF

\* a := &b; c := &a; *c := &c
IndirectStoreScenario ==
  << new_constraint(Sc(Va), Ad(Vb)),
     new_constraint(Sc(Vc), Ad(Va)),
     new_constraint(De(Vc), Ad(Vc)) >>

\* C11: when the solver has terminated, for every store *x = &y with offset
\* 0 of the input and every ordinary variable j in pt(x), y is in pt(j) read
\* through the representative of j; a step that processes *x = &y and puts y
\* into the solution of a node leaves that node marked changed; and the
\* input a := &b; c := &a; *c := &c ends with pt(a) = {b, c}.
C11_IndirectStore ==
  /\ [](pc = "solved" =>
          /\ \A k \in DOMAIN input :
               IsStoreAddr0(input[k]) =>
                 \A j \in PointsTo(St, input[k].lhs.var) :
                   IsOrdinary(j) => input[k].rhs.var \in PointsTo(St, j)
          /\ input = IndirectStoreScenario =>
               PointsTo(St, Va) = { Vb, Vc })
  /\ [][ (pc = "complex"
          /\ constraints[varmap[cur].complex[pos]].lhs.type = DEREF
          /\ constraints[varmap[cur].complex[pos]].rhs.type = ADDRESSOF) =>
           \A t \in DOMAIN varmap :
             (varmap'[t].solution \ varmap[t].solution) # {} =>
               t \in changed' ]_vars

\* A solved run in which the store *x = &y has put y into the set of an
\* ordinary member of pt(x) that no constraint of the input gives y to
\* directly.
C11_Witness ==
  /\ pc = "solved"
  /\ \E k \in DOMAIN input :
       /\ IsStoreAddr0(input[k])
       /\ \E j \in PointsTo(St, input[k].lhs.var) :
            /\ IsOrdinary(j)
            /\ input[k].rhs.var \in PointsTo(St, j)
            /\ \A n \in DOMAIN input :
                 ~(input[n].lhs.type = SCALAR /\ input[n].lhs.var = j)

\* p := &q; q := &p; r := p with a, b, c for p, q, r
CycleCollapseScenario ==
  << new_constraint(Sc(Va), Ad(Vb)),
     new_constraint(Sc(Vb), Ad(Va)),
     new_constraint(Sc(Vc), Sc(Va)) >>

\* C12 as stated: for p := &q; q := &p; r := p the pass ends with p, q and
\* r under one representative whose solution holds both p and q.
C12_CycleCollapse ==
  (pc = "solved" /\ input = CycleCollapseScenario) =>
    /\ varmap[Va].node = varmap[Vb].node
    /\ varmap[Vb].node = varmap[Vc].node
    /\ { Va, Vb } \subseteq PointsTo(St, Va)

\* C12 as amended: for p := &q; q := &p; r := p the pass ends with r folded
\* into p by perform_var_substitution, q its own representative,
\* pt(p) = pt(r) = {q} and pt(q) = {p}.
C12_CycleCollapseAmended ==
  (pc = "solved" /\ input = CycleCollapseScenario) =>
    /\ varmap[Va].node = Va
    /\ varmap[Vc].node = Va
    /\ varmap[Vb].node = Vb
    /\ PointsTo(St, Va) = { Vb }
    /\ PointsTo(St, Vc) = { Vb }
    /\ PointsTo(St, Vb) = { Va }

\* The end of the pass on that input, one variable folded by substitution.
C12_Witness ==
  /\ pc = "solved"
  /\ input = CycleCollapseScenario
  /\ stats.collapsed_vars = 1
  /\ stats.unified_vars_static = 0

\* ------------------------------------------------------------------------
\* The pass with and without use_field_sensitive
\* ------------------------------------------------------------------------

\* A fourth pointer-sized scalar d, created after the structure s.
Vd == Vs1 + 1

\* The variables a, b, c, s and d: with use_field_sensitive s gets one
\* variable per field, without it one variable of the size of its type.
create_variables_fields(s, use_field_sensitive) ==
  LET s1 == create_variable_info_for(s, PointerSize)
      s2 == create_variable_info_for(s1, PointerSize)
      s3 == create_variable_info_for(s2, PointerSize)
      s4 == IF use_field_sensitive
            THEN create_structure_info_for(s3, 2 * PointerSize,
                   << [ offset |-> 0, size |-> PointerSize ],
                      [ offset |-> PointerSize, size |-> PointerSize ] >>)
            ELSE create_variable_info_for(s3, 2 * PointerSize)
  IN create_variable_info_for(s4, PointerSize)

\* The id the front end finds for the variable that has id v when s has two
\* field variables.
get_id_for_tree(v, use_field_sensitive) ==
  IF use_field_sensitive \/ v < Vs1 THEN v ELSE v - 1

constraints_for(cs, use_field_sensitive) ==
  [ k \in DOMAIN cs |->
      [ cs[k] EXCEPT !.lhs.var = get_id_for_tree(@, use_field_sensitive),
                     !.rhs.var = get_id_for_tree(@, use_field_sensitive) ] ]

\* s.f0 := &a; s.f1 := &b; c := &s.f0; d := *c
FieldSensitivityScenario ==
  << new_constraint(Sc(Vs0), Ad(Va)),
     new_constraint(Sc(Vs1), Ad(Vb)),
     new_constraint(Sc(Vc), Ad(Vs0)),
     new_constraint(Sc(Vd), De(Vc)) >>

InitFields ==
  \E cs \in InputLists \cup { FieldSensitivityScenario } : \E use_field_sensitive \in BOOLEAN :
    LET m == [ StartMachine(cs) EXCEPT
                 !.s = process_constraints(
                         create_variables_fields(init_base_vars,
                                                 use_field_sensitive),
                         constraints_for(cs, use_field_sensitive), 1) ]
    IN /\ input = cs
       /\ varmap = m.s.varmap
       /\ constraints = m.s.constraints
       /\ graph = m.s.graph
       /\ bitmaps = m.s.bitmaps
       /\ edge_added = m.s.edge_added
       /\ changed = m.s.changed
       /\ changed_count = m.s.changed_count
       /\ stats = m.s.stats
       /\ err = m.s.err
       /\ topo_order = m.topo_order
       /\ cur = m.cur
       /\ pos = m.pos
       /\ pc = m.pc
       /\ have_alias_info = m.have_alias_info
       /\ runs = m.runs
       /\ first_pt = << >>
       /\ query = NoQuery
       /\ pt_vars = [ p \in QueryTrees |-> {} ]

SpecFields == InitFields /\ [][Next]_vars

\* s has one variable per field in this run.
FieldSensitiveRun == varmap[Vs0].next # NoVar

\* C13: on s.f0 := &x; s.f1 := &y; p := &s.f0; q := *p the pass ends with
\* pt(q) = {x} when s has the field variables s.f0 and s.f1, and with
\* pt(q) = {x, y} when s is a single variable.
C13_FieldSensitivity ==
  (pc = "solved" /\ input = FieldSensitivityScenario) =>
    IF FieldSensitiveRun
    THEN PointsTo(St, Vd) = { Va }
    ELSE PointsTo(St, get_id_for_tree(Vd, FALSE)) = { Va, Vb }

\* The end of the field-sensitive run of the scenario: the pointer holds the
\* first field only, the sibling field holds y, and q has received a member.
C13_Witness ==
  /\ pc = "solved"
  /\ input = FieldSensitivityScenario
  /\ FieldSensitiveRun
  /\ PointsTo(St, Vc) = { Vs0 }
  /\ PointsTo(St, Vs1) = { Vb }
  /\ PointsTo(St, Vd) # {}

\* ------------------------------------------------------------------------
\* The query and delete_alias_vars
\* ------------------------------------------------------------------------

\* A variable whose type has no constant size.
create_unknown_size_variable(s) ==
  LET index == Cardinality(DOMAIN s.varmap)
      vi == [ new_var_info(index, index) EXCEPT
                !.is_unknown_size_var = TRUE,
                !.size = AllOnes, !.fullsize = AllOnes ]
  IN [ VEC_safe_push_varinfo(s, vi) EXCEPT !.stats.total_vars = @ + 1 ]

\* a, b, c, s and the label lab.
create_variables_query(s) ==
  create_unknown_size_variable(create_variables(s))

\* The id of tree t in the hash table id_for_tree, NoVar when it has none:
\* every variable but a later field of a structure was inserted for its
\* own tree.
lookup_id_for_tree(s, t) ==
  IF t \in DOMAIN s.varmap /\ t # Vs1 THEN t ELSE NoVar

\* vi->decl of variable v: the fields of s share the declaration of s.
decl_of(v) == IF v = Vs1 THEN Vs0 ELSE v

\* TREE_CODE (decl) == VAR_DECL || TREE_CODE (decl) == PARM_DECL
is_var_or_parm_decl(t) == t # Vlab

UidBase == 100

DECL_UID(t) == UidBase + t

set_uids_in_ptset(s, into, from) ==
  into \cup { DECL_UID(decl_of(i)) :
                i \in { j \in from : is_var_or_parm_decl(decl_of(j)) } }

\* find_what_p_points_to without its walk looking for artificial members.
find_what_p_points_to_no_walk(s, have_info, pt, p) ==
  LET none == [ ret |-> FALSE, read |-> FALSE, pt_vars |-> pt ]
      id == lookup_id_for_tree(s, p)
  IN IF ~have_info THEN none
     ELSE IF id = NoVar THEN none
     ELSE LET vi == s.varmap[id]
              rep == s.varmap[vi.node]
          IN IF vi.is_artificial_var THEN [ none EXCEPT !.read = TRUE ]
             ELSE IF vi.size # vi.fullsize THEN [ none EXCEPT !.read = TRUE ]
             ELSE [ ret |-> TRUE, read |-> TRUE,
                    pt_vars |-> set_uids_in_ptset(s, pt, rep.solution) ]

\* The return value of find_what_p_points_to (p), whether it got as far as
\* get_varinfo, and the pi->pt_vars it leaves, starting from pt.
find_what_p_points_to(s, have_info, pt, p) ==
  LET none == [ ret |-> FALSE, read |-> FALSE, pt_vars |-> pt ]
      id == lookup_id_for_tree(s, p)
  IN IF ~have_info THEN none
     ELSE IF id = NoVar THEN none
     ELSE LET vi == s.varmap[id]
              rep == s.varmap[vi.node]
          IN IF vi.is_artificial_var THEN [ none EXCEPT !.read = TRUE ]
             ELSE IF vi.size # vi.fullsize THEN [ none EXCEPT !.read = TRUE ]
             ELSE IF \E i \in rep.solution : s.varmap[i].is_artificial_var
             THEN [ none EXCEPT !.read = TRUE ]
             ELSE [ ret |-> TRUE, read |-> TRUE,
                    pt_vars |-> set_uids_in_ptset(s, pt, rep.solution) ]

\* Longest input of the runs that are queried.
MaxQueryConstraints == 2

\* The constraints of Universe and those naming the label and NULL.
QueryUniverse ==
  Universe \o << new_constraint(Sc(Va), Ad(Vlab)),
                 new_constraint(Sc(Vc), Ad(Vlab)),
                 new_constraint(Sc(Vb), Ad(nothing_id)) >>

QueryInputLists ==
  { [ k \in DOMAIN sel |-> QueryUniverse[sel[k]] ] :
      sel \in { f \in UNION { [ 1..n -> 1..Len(QueryUniverse) ] :
                               n \in 0..MaxQueryConstraints } :
                  \A p, q \in DOMAIN f : p < q => f[p] < f[q] } }
  \cup Scenarios

InitQuery ==
  \E cs \in QueryInputLists :
    LET m == [ StartMachine(cs) EXCEPT
                 !.s = process_constraints(
                         create_variables_query(init_base_vars), cs, 1) ]
    IN /\ input = cs
       /\ varmap = m.s.varmap
       /\ constraints = m.s.constraints
       /\ graph = m.s.graph
       /\ bitmaps = m.s.bitmaps
       /\ edge_added = m.s.edge_added
       /\ changed = m.s.changed
       /\ changed_count = m.s.changed_count
       /\ stats = m.s.stats
       /\ err = m.s.err
       /\ topo_order = m.topo_order
       /\ cur = m.cur
       /\ pos = m.pos
       /\ pc = m.pc
       /\ have_alias_info = m.have_alias_info
       /\ runs = m.runs
       /\ first_pt = << >>
       /\ query = NoQuery
       /\ pt_vars = [ p \in QueryTrees |-> {} ]

\* Another pass asks about pointer p, at any point of the compilation.
Query ==
  /\ pc # "abort"
  /\ \E p \in QueryTrees :
       LET r == find_what_p_points_to(St, have_alias_info, pt_vars[p], p)
       IN /\ query' = [ p |-> p, ret |-> r.ret, read |-> r.read ]
          /\ pt_vars' = [ pt_vars EXCEPT ![p] = r.pt_vars ]
  /\ UNCHANGED << input, varmap, constraints, graph, bitmaps, edge_added,
                  changed, changed_count, stats, err, topo_order, cur, pos,
                  pc, have_alias_info, runs, first_pt >>

\* delete_alias_vars leaving have_alias_info as it is.
DeleteAliasVars_flag_kept ==
  /\ pc = "solved"
  /\ pc' = "deleted"
  /\ UNCHANGED << input, varmap, constraints, graph, bitmaps, edge_added,
                  changed, changed_count, stats, err, topo_order, cur, pos,
                  have_alias_info, runs, first_pt, query, pt_vars >>

\* delete_alias_vars: the pools and the hash table are freed.
DeleteAliasVars ==
  /\ pc = "solved"
  /\ pc' = "deleted"
  /\ have_alias_info' = FALSE
  /\ UNCHANGED << input, varmap, constraints, graph, bitmaps, edge_added,
                  changed, changed_count, stats, err, topo_order, cur, pos,
                  runs, first_pt, query, pt_vars >>

SpecQuery == InitQuery /\ [][Next \/ Query \/ DeleteAliasVars]_vars

\* p has a variable that is not artificial and is not a field of a
\* structure.
KnownWhole(p) ==
  /\ lookup_id_for_tree(St, p) # NoVar
  /\ ~varmap[p].is_artificial_var
  /\ varmap[p].size = varmap[p].fullsize

HoldsArtificial(p) ==
  \E i \in PointsTo(St, p) : varmap[i].is_artificial_var

C15_QueryAvailability ==
  /\ [](have_alias_info <=> pc = "solved")
  /\ [][ (query' # query
          /\ (pc # "solved" \/ lookup_id_for_tree(St, query'.p) = NoVar)) =>
           /\ ~query'.ret
           /\ ~query'.read
           /\ pt_vars' = pt_vars ]_vars

\* A pointer that was answered after the pass is refused once
\* delete_alias_vars has run.
C15_Witness ==
  /\ pc = "deleted"
  /\ query.p \in { Va, Vb, Vc }
  /\ ~query.ret
  /\ ~query.read
  /\ pt_vars[query.p] # {}

\* C16: NULL, ANYTHING, READONLY and INTEGER are the variables 0, 1, 2 and
\* 3, each flagged artificial, and from the end of build_constraint_graph
\* on ANYTHING is in the solutions of ANYTHING, READONLY and INTEGER, read
\* through their representatives.
C16_SpecialVariables ==
  /\ nothing_id = 0 /\ anything_id = 1 /\ readonly_id = 2 /\ integer_id = 3
  /\ \A i \in { nothing_id, anything_id, readonly_id, integer_id } :
       /\ i \in DOMAIN varmap
       /\ varmap[i].id = i
       /\ varmap[i].is_artificial_var
  /\ \A v \in DOMAIN varmap : varmap[v].id = v
  /\ pc # "start" =>
       \A v \in { anything_id, readonly_id, integer_id } :
         anything_id \in PointsTo(St, v)

\* The end of a pass in which offline substitution has folded a variable of
\* the function into READONLY.
C16_Witness ==
  /\ pc = "solved"
  /\ \E v \in DOMAIN varmap : v > integer_id /\ varmap[v].node = readonly_id
  /\ anything_id \in varmap[readonly_id].solution

\* The destinations of the successor edges of n whose weights hold 0.
Succ0(g, bm, n) ==
  { g.succs[n][k].dest :
      k \in { i \in DOMAIN g.succs[n] : 0 \in bm[g.succs[n][i].weights] } }

RECURSIVE Closure0(_, _, _)
Closure0(g, bm, S) ==
  LET T == S \cup UNION { Succ0(g, bm, n) : n \in S }
  IN IF T = S THEN S ELSE Closure0(g, bm, T)

\* The nodes a path of one or more zero-weight successor edges leads to
\* from n.
Reach0(g, bm, n) == Closure0(g, bm, Succ0(g, bm, n))

\* The step runs find_and_collapse_graph_cycles: it is the static call, or
\* the head of an iteration after the first one with an edge added.
CycleDetectionStep ==
  \/ pc = "built" /\ pc' = "collapsed"
  \/ pc = "loop" /\ pc' = "iter" /\ edge_added /\ stats.iterations >= 1

\* C17: a step that runs find_and_collapse_graph_cycles gives two distinct
\* representatives the same representative only if, in the graph the step
\* starts from, each reaches the other along successor edges whose weights
\* hold 0.
C17_OnlyZeroWeightCycles ==
  [][ CycleDetectionStep =>
        \A a, b \in DOMAIN varmap :
          (a # b /\ IsRep(a) /\ IsRep(b)
           /\ varmap'[a].node = varmap'[b].node) =>
            /\ b \in Reach0(graph, bitmaps, a)
            /\ a \in Reach0(graph, bitmaps, b) ]_vars

\* Cycle detection has unified a cycle of zero-weight edges and left alone
\* two representatives joined by a cycle that a weight other than 0 closes.
C17_Witness ==
  /\ pc = "collapsed"
  /\ stats.unified_vars_static > 0
  /\ \E a, b \in DOMAIN varmap :
       /\ a # b /\ IsRep(a) /\ IsRep(b)
       /\ HasEntry(graph.succs[a], b)
       /\ b \notin Succ0(graph, bitmaps, a)
       /\ a \in Reach0(graph, bitmaps, b)

\* ------------------------------------------------------------------------
\* A structure with padding between its fields
\* ------------------------------------------------------------------------

Vt0 == Vs1 + 1
Vt1 == Vs1 + 2

\* struct { int *p; long long q; } t, with q aligned to its own size: the
\* field variables are t.p at bits [0, 32) and t.q at bits [64, 128), which
\* push_fields_onto_fieldstack records from bitpos_of_field and
\* create_variable_info_for sizes from DECL_SIZE; no field covers [32, 64).
create_variables_padded(s) ==
  create_structure_info_for(create_variables(s), 4 * PointerSize,
    << [ offset |-> 0, size |-> PointerSize ],
       [ offset |-> 2 * PointerSize, size |-> 2 * PointerSize ] >>)

\* Accesses through a pointer to t.p at the displacement of the padding.
PaddedScenarios ==
  { \* c = &t.p; a = *(c + 32)
    << new_constraint(Sc(Vc), Ad(Vt0)),
       new_constraint(Sc(Va), DeOff(Vc, PointerSize)) >>,
    \* c = &t.p; a = c + 32
    << new_constraint(Sc(Vc), Ad(Vt0)),
       new_constraint(Sc(Va), ScOff(Vc, PointerSize)) >>,
    \* c = &t.p; a = *(c + 64): the displacement of t.q
    << new_constraint(Sc(Vc), Ad(Vt0)),
       new_constraint(Sc(Vt1), Ad(Vb)),
       new_constraint(Sc(Va), DeOff(Vc, 2 * PointerSize)) >> }

InitPadded ==
  \E cs \in InputLists \cup PaddedScenarios :
    LET m == [ StartMachine(cs) EXCEPT
                 !.s = process_constraints(
                         create_variables_padded(init_base_vars), cs, 1) ]
    IN /\ input = cs
       /\ varmap = m.s.varmap
       /\ constraints = m.s.constraints
       /\ graph = m.s.graph
       /\ bitmaps = m.s.bitmaps
       /\ edge_added = m.s.edge_added
       /\ changed = m.s.changed
       /\ changed_count = m.s.changed_count
       /\ stats = m.s.stats
       /\ err = m.s.err
       /\ topo_order = m.topo_order
       /\ cur = m.cur
       /\ pos = m.pos
       /\ pc = m.pc
       /\ have_alias_info = m.have_alias_info
       /\ runs = m.runs
       /\ first_pt = << >>
       /\ query = NoQuery
       /\ pt_vars = [ p \in QueryTrees |-> {} ]

SpecPadded == InitPadded /\ [][Next]_vars

\* The field chains keep the layout invariant: offsets strictly increase
\* along next and every field has the fullsize of its base.
LayoutInvariant ==
  \A v \in DOMAIN varmap :
    varmap[v].next # NoVar =>
      /\ varmap[varmap[v].next].offset > varmap[v].offset
      /\ varmap[varmap[v].next].fullsize = varmap[v].fullsize

\* C18: with field chains that keep the layout invariant, no assertion fails
\* and gcc_unreachable is not reached during graph build, cycle unification,
\* offline substitution or solving: no step ends in a failure
\* (first_vi_for_offset always finds a field), the node being processed is
\* a representative, the edge being propagated has a weight, and
\* changed_count stays at or above zero.
C18_SolverNeverFails ==
  LayoutInvariant =>
    /\ err = ""
    /\ pc # "abort"
    /\ changed_count >= 0
    /\ pc \in { "complex", "propagate" } => IsRep(cur)
    /\ pc = "propagate" => bitmaps[graph.succs[cur][pos].weights] # {}

\* v is the dest of an entry of some predecessor or successor list.
IsEndpoint(v) ==
  \E n \in DOMAIN varmap :
    \/ HasEntry(graph.succs[n], v)
    \/ HasEntry(graph.preds[n], v)

\* C19: a variable that has been unified away (node(id) # id) stays so in
\* every later state; it has no predecessor or successor edge and is the
\* dest of none, it is in no topological order still to be walked and it is
\* not the node the solver is processing.
C19_FoldedRetired ==
  /\ [](\A v \in DOMAIN varmap :
          ~IsRep(v) =>
            /\ graph.succs[v] = << >>
            /\ graph.preds[v] = << >>
            /\ ~IsEndpoint(v)
            /\ \A k \in DOMAIN topo_order : topo_order[k] # v
            /\ cur # v)
  /\ [][ \A v \in DOMAIN varmap : ~IsRep(v) => varmap'[v].node # v ]_vars

\* The solver is walking a topological order of a graph from which one
\* variable was folded by cycle unification and another by offline
\* substitution.
C19_Witness ==
  /\ pc = "iter"
  /\ Len(topo_order) > 0
  /\ stats.unified_vars_static > 0
  /\ stats.collapsed_vars > 0
  /\ \E v \in DOMAIN varmap : ~IsRep(v) /\ IsOrdinary(v)

\* C20: in the state a step that runs find_and_collapse_graph_cycles ends
\* in, no two distinct representatives reach each other along successor
\* edges whose weights hold 0.
C20_CycleDetectionComplete ==
  [][ CycleDetectionStep =>
        \A a, b \in DOMAIN varmap :
          (a # b /\ varmap'[a].node = a /\ varmap'[b].node = b) =>
            ~ /\ b \in Reach0(graph', bitmaps', a)
              /\ a \in Reach0(graph', bitmaps', b) ]_vars

\* Static cycle detection has folded the cycle through a, b and c into one
\* representative.
C20_Witness ==
  /\ pc = "collapsed"
  /\ stats.unified_vars_static = 2
  /\ varmap[Va].node = varmap[Vb].node
  /\ varmap[Vb].node = varmap[Vc].node

\* *x = y + roff, with no offset on the dereference.
IsStoreVar0(c) ==
  /\ c.lhs.type = DEREF /\ c.lhs.offset = 0
  /\ c.rhs.type = SCALAR

\* The members S leaves in a set it is added to with increment k.
Shift(S, k) == IF k = 0 THEN S ELSE solution_set_add(St, S, k)

MaxProcessed == 2

\* What the front end hands to process_constraint: in get_constraint_for a
\* reference at an unknown position names ANYTHING with the kind of its
\* base, and either side of an assignment may be a dereference.
RawConstraints ==
  { new_constraint(De(Vc), De(Vb)),
    new_constraint(De(Vb), DeOff(Vc, PointerSize)),
    new_constraint(De(Vc), De(anything_id)),
    new_constraint(De(anything_id), De(Vb)),
    new_constraint(De(anything_id), De(anything_id)),
    new_constraint(Sc(anything_id), Sc(anything_id)),
    new_constraint(Sc(anything_id), Ad(anything_id)),
    new_constraint(Ad(anything_id), Ad(anything_id)),
    new_constraint(Ad(anything_id), Sc(Va)),
    new_constraint(Ad(anything_id), De(Vb)),
    new_constraint(Sc(Va), Sc(anything_id)),
    new_constraint(Sc(anything_id), Sc(Va)),
    new_constraint(Sc(Vb), Sc(nothing_id)),
    new_constraint(Sc(Va), Sc(Va)),
    new_constraint(Sc(Vs0), ScOff(Vs0, PointerSize)),
    new_constraint(Sc(Va), ScOff(Vs0, PointerSize)),
    new_constraint(Sc(Va), Ad(Vs0)),
    new_constraint(Sc(Vb), Ad(Vs1)),
    new_constraint(Sc(Vc), Ad(Va)),
    new_constraint(Sc(Va), De(Vc)),
    new_constraint(Sc(Va), Sc(Vb)),
    new_constraint(De(Vc), Sc(Va)) }

\* One call of process_constraint by the front end, before
\* build_constraint_graph.
ProcessConstraint ==
  /\ pc = "start"
  /\ Len(input) < MaxProcessed
  /\ \E t \in RawConstraints :
       /\ Becomes(Halt([ M EXCEPT !.s = process_constraint(@, t) ]))
       /\ input' = Append(input, t)
  /\ UNCHANGED << first_pt, query, pt_vars >>

\* The state init_base_vars and create_variable_info_for leave, no
\* constraint emitted yet.
InitFrontEnd == Init /\ input = << >>

\* The pass from that state, the front end emitting constraints before the
\* graph is built.
SpecFrontEnd == InitFrontEnd /\ [][ProcessConstraint \/ Next]_vars

\* The step is a call of process_constraint.
Processing == pc = "start" /\ pc' = "start" /\ input' # input

\* The constraint the step hands to process_constraint.
Handed == input'[Len(input')]

\* The constraints the step appends to the list.
Stored == SubSeq(constraints', Len(constraints) + 1, Len(constraints'))

BothDeref(c) == c.lhs.type = DEREF /\ c.rhs.type = DEREF

\* C22: the constraint list never holds a constraint with a dereference on
\* both sides, and process_constraint given *p = *q creates one new scalar
\* variable t and appends exactly t = *q and *p = t.
C22_DoubleDerefSplit ==
  /\ [](\A k \in DOMAIN constraints : ~BothDeref(constraints[k]))
  /\ [][ (Processing /\ BothDeref(Handed)) =>
           LET t == Cardinality(DOMAIN varmap)
           IN /\ DOMAIN varmap' = DOMAIN varmap \cup { t }
              /\ Stored = << new_constraint(Sc(t), Handed.rhs),
                             new_constraint(Handed.lhs, Sc(t)) >> ]_vars

\* C22 amended: the same, for dereferences of variables other than ANYTHING
\* on the right-hand side; *p = *ANYTHING is appended as it is.
C22_DoubleDerefSplitAmended ==
  /\ [](\A k \in DOMAIN constraints :
          BothDeref(constraints[k]) => constraints[k].rhs.var = anything_id)
  /\ [][ (Processing /\ BothDeref(Handed)) =>
           IF Handed.rhs.var # anything_id
           THEN LET t == Cardinality(DOMAIN varmap)
                IN /\ DOMAIN varmap' = DOMAIN varmap \cup { t }
                   /\ Stored = << new_constraint(Sc(t), Handed.rhs),
                                  new_constraint(Handed.lhs, Sc(t)) >>
           ELSE /\ DOMAIN varmap' = DOMAIN varmap
                /\ Stored = IF Handed.lhs.var = anything_id
                            THEN << >> ELSE << Handed >> ]_vars

\* Two double dereferences have been split, each with its own temporary,
\* and the pass has run to its end on the four constraints.
C22_Witness ==
  /\ pc = "solved"
  /\ Len(input) = 2
  /\ \A k \in DOMAIN input :
       BothDeref(input[k]) /\ input[k].rhs.var # anything_id
  /\ Cardinality(DOMAIN varmap) = Vs1 + 3

NamesAnythingTwice(c) == c.lhs.var = anything_id /\ c.rhs.var = anything_id

\* C23: process_constraint appends nothing for a constraint that names
\* ANYTHING on both sides and appends x = &ANYTHING when handed
\* &ANYTHING = x; so the only constraint of the list that names ANYTHING on
\* both sides is the first one, ANYTHING = &ANYTHING, which init_base_vars
\* pushes itself, and no constraint of the list has &ANYTHING as its
\* left-hand side.  Every call returns.
C23_AnythingCanonical ==
  /\ [](\A k \in DOMAIN constraints :
          /\ NamesAnythingTwice(constraints[k]) =>
               /\ k = 1
               /\ constraints[k] =
                    new_constraint(Sc(anything_id), Ad(anything_id))
          /\ ~(constraints[k].lhs.type = ADDRESSOF
               /\ constraints[k].lhs.var = anything_id))
  /\ [][ (Processing /\ NamesAnythingTwice(Handed)) =>
           Stored = << >> /\ varmap' = varmap ]_vars
  /\ [][ (Processing /\ Handed.lhs = Ad(anything_id)
          /\ Handed.rhs.var # anything_id) =>
           /\ Stored = << new_constraint(Handed.rhs, Ad(anything_id)) >>
           /\ err' = "" ]_vars

\* The front end has handed over a constraint naming ANYTHING twice, which
\* left no trace, and &ANYTHING = x, which is in the list as x = &ANYTHING.
C23_Witness ==
  /\ pc = "start"
  /\ Len(input) = 2
  /\ NamesAnythingTwice(input[1])
  /\ input[2].lhs = Ad(anything_id)
  /\ input[2].rhs.var # anything_id
  /\ constraints[Len(constraints)] =
       new_constraint(input[2].rhs, Ad(anything_id))
  /\ Len(constraints) = integer_id + 1

RECURSIVE FieldsFrom(_)
\* v and the fields that follow it in its next chain.
FieldsFrom(v) ==
  IF v = NoVar THEN {} ELSE { v } \cup FieldsFrom(varmap'[v].next)

\* C24: a call of process_constraint that appends a constraint with rhs &y
\* leaves address_taken set on y and on every field after y in its chain,
\* and one that appends a constraint with a dereference on the right and
\* none on the left, x, leaves indirect_target set on x; no step of the pass
\* clears either flag of any variable.
C24_SubstitutionFlags ==
  /\ [][ Processing =>
           \A k \in DOMAIN Stored :
             /\ Stored[k].rhs.type = ADDRESSOF =>
                  \A v \in FieldsFrom(Stored[k].rhs.var) :
                    varmap'[v].address_taken
             /\ (Stored[k].lhs.type # DEREF /\ Stored[k].rhs.type = DEREF) =>
                  varmap'[Stored[k].lhs.var].indirect_target ]_vars
  /\ [][ \A v \in DOMAIN varmap :
           /\ varmap[v].address_taken => varmap'[v].address_taken
           /\ varmap[v].indirect_target => varmap'[v].indirect_target ]_vars

\* The pass has ended on b = &s.f1; a = *c: the flag is on s.f1 and not on
\* the field before it, and a is an indirect target.
C24_Witness ==
  /\ pc = "solved"
  /\ input = << new_constraint(Sc(Vb), Ad(Vs1)),
                new_constraint(Sc(Va), De(Vc)) >>
  /\ varmap[Vs1].address_taken
  /\ ~varmap[Vs0].address_taken
  /\ varmap[Va].indirect_target

\* x = y + k, both sides scalar.
IsScalarCopy(c) == c.lhs.type = SCALAR /\ c.rhs.type = SCALAR

\* A scalar copy build_constraint_graph makes an edge for.
MakesEdge(c) ==
  /\ IsScalarCopy(c)
  /\ c.lhs.var > anything_id
  /\ c.rhs.var > anything_id
  /\ ~(c.lhs.var = c.rhs.var /\ c.rhs.offset = 0 /\ c.lhs.offset = 0)

\* The weights of the entries for y in the predecessor list of x.
PredWeights(x, y) ==
  UNION { bitmaps[graph.preds[x][e].weights] :
            e \in { i \in DOMAIN graph.preds[x] : graph.preds[x][i].dest = y } }

\* C25: when build_constraint_graph has returned, the predecessor list of x
\* holds an edge to y with k among its weights exactly when the constraint
\* list holds a scalar copy x = y + k with both ids above 1 that is not the
\* self copy with offsets 0; the other scalar copies make no edge, and the
\* solution of x holds exactly the variables whose address some constraint
\* assigns to x.
C25_InitialCopyEdges ==
  pc = "built" =>
    \A x \in DOMAIN varmap :
      /\ \A y \in DOMAIN varmap :
           PredWeights(x, y) =
             { constraints[k].rhs.offset :
                 k \in { i \in DOMAIN constraints :
                           /\ MakesEdge(constraints[i])
                           /\ constraints[i].lhs.var = x
                           /\ constraints[i].rhs.var = y } }
      /\ varmap[x].solution =
           { constraints[k].rhs.var :
               k \in { i \in DOMAIN constraints :
                         /\ constraints[i].rhs.type = ADDRESSOF
                         /\ constraints[i].lhs.type # DEREF
                         /\ constraints[i].lhs.var = x } }

\* The graph has been built from a scalar copy that makes no edge and one
\* that makes an edge with a weight other than 0.
C25_Witness ==
  /\ pc = "built"
  /\ \E k \in DOMAIN constraints :
       IsScalarCopy(constraints[k]) /\ ~MakesEdge(constraints[k])
  /\ \E x, y \in DOMAIN varmap : PredWeights(x, y) \ { 0 } # {}

\* The complex constraint the step processes and the set it is processed
\* against.
CurConstraint == constraints[varmap[cur].complex[pos]]
Delta == varmap[cur].solution

\* j is an ordinary member of Delta that offset k keeps inside its variable.
Resolvable(j, k) ==
  /\ j \in Delta
  /\ IsOrdinary(j)
  /\ varmap[j].offset + k < varmap[j].fullsize

\* The node of the field of j's variable that covers offset(j) + k.
FieldNode(j, k) ==
  varmap[first_vi_for_offset(St, j, varmap[j].offset + k)].node

\* C26: the step that processes *(x + k) = &y puts y into the solution of
\* the field at offset(j) + k of every resolvable member j of Sol(x), and
\* the step that processes z = *(x + k) adds the edge from that field into
\* z, whatever else Sol(x) holds.
C26_PerMemberOffset ==
  [][ pc = "complex" =>
        /\ (CurConstraint.lhs.type = DEREF
            /\ CurConstraint.rhs.type = ADDRESSOF) =>
             \A j \in DOMAIN varmap :
               Resolvable(j, CurConstraint.lhs.offset) =>
                 CurConstraint.rhs.var \in
                   varmap'[FieldNode(j, CurConstraint.lhs.offset)].solution
        /\ (CurConstraint.lhs.type = SCALAR
            /\ CurConstraint.rhs.type = DEREF) =>
             \A j \in DOMAIN varmap :
               Resolvable(j, CurConstraint.rhs.offset) =>
                 LET t == FieldNode(j, CurConstraint.rhs.offset)
                     lhs == varmap[CurConstraint.lhs.var].node
                 IN t # lhs =>
                      \E e \in DOMAIN graph'.preds[lhs] :
                        /\ graph'.preds[lhs][e].dest = t
                        /\ 0 \in bitmaps'[graph'.preds[lhs][e].weights] ]_vars

\* j is an ordinary member of Delta that offset k takes out of its variable.
Untypesafe(j, k) ==
  /\ j \in Delta
  /\ IsOrdinary(j)
  /\ varmap[j].offset + k >= varmap[j].fullsize

\* Node t is what some member of Delta is resolved to with offset k: the
\* field at offset(j) + k of an ordinary member, or the member itself when
\* it is artificial or of unknown size.
ResolvedTo(t, k) ==
  \E j \in Delta :
    \/ Resolvable(j, k) /\ FieldNode(j, k) = t
    \/ ~IsOrdinary(j) /\ varmap[j].node = t

InEdges(g, bm, t) ==
  { << g.preds[t][i].dest, bm[g.preds[t][i].weights] >> :
      i \in DOMAIN g.preds[t] }

OutEdges(g, bm, t) ==
  { << g.succs[t][i].dest, bm[g.succs[t][i].weights] >> :
      i \in DOMAIN g.succs[t] }

\* The offset the constraint puts on its dereferenced variable.
DerefOffset(c) == IF c.lhs.type = DEREF THEN c.lhs.offset ELSE c.rhs.offset

\* C27: the step that processes a complex constraint with offset k leaves
\* alone the node of every ordinary member j of Delta with
\* offset(j) + k >= fullsize(j), unless another member is resolved to that
\* node: its solution and its changed bit stay as they are and it gets no
\* edge on the side the constraint adds edges to; the other members are
\* processed.
C27_UntypesafeDropped ==
  [][ pc = "complex" =>
        LET c == CurConstraint
            k == DerefOffset(c)
        IN \A j \in DOMAIN varmap :
             (Untypesafe(j, k) /\ ~ResolvedTo(varmap[j].node, k)) =>
               LET t == varmap[j].node
               IN IF c.lhs.type = DEREF
                  THEN /\ varmap'[t].solution = varmap[t].solution
                       /\ t \in changed' => t \in changed
                       /\ InEdges(graph', bitmaps', t)
                            = InEdges(graph, bitmaps, t)
                  ELSE OutEdges(graph', bitmaps', t)
                         = OutEdges(graph, bitmaps, t) ]_vars

\* ------------------------------------------------------------------------
\* C28: shifting a solution set
\* ------------------------------------------------------------------------

\* A step of solve_graph that propagates along one successor edge.
PropagateStep ==
  /\ pc = "propagate"
  /\ pc' \in { "propagate", "iter" }
  /\ (pc' = "propagate" => pos' = pos + 1)

\* The members a shift of S by k is said to have.
ShiftedBy(S, k) ==
  { first_vi_for_offset(St, i, varmap[i].offset + k) :
      i \in { j \in S : varmap[j].offset + k < varmap[j].fullsize } }
  \cup { i \in S : /\ varmap[i].offset + k >= varmap[i].fullsize
                   /\ (varmap[i].is_artificial_var
                       \/ varmap[i].is_unknown_size_var) }

RECURSIVE UnionOfShifts(_, _, _, _, _)
\* TO after the shifts of FROM by ks[n..] were united into it one by one;
\* on a self-edge FROM is TO itself.
UnionOfShifts(to, from, self, ks, n) ==
  IF n > Len(ks) THEN to
  ELSE UnionOfShifts(to \cup ShiftedBy(IF self THEN to ELSE from, ks[n]),
                     from, self, ks, n + 1)

\* C28: a propagation along an edge unites into the destination's solution,
\* for each weight k of the edge, exactly the first_vi_for_offset(i,
\* offset(i)+k) of the source members i with offset(i)+k < fullsize(i) and
\* the artificial or unknown-size members with offset(i)+k >= fullsize(i)
\* (ordinary members shifted out of their aggregate are omitted); the source
\* solution is left as it was, and the destination is marked changed exactly
\* when it gained a member.
C28_Shift ==
  [][ PropagateStep =>
        LET e == graph.succs[cur][pos]
            from == varmap[cur].solution
            to == varmap[e.dest].solution
            ks == SetToSortedSeq(bitmaps[e.weights])
            gained == varmap'[e.dest].solution # to
        IN /\ varmap'[e.dest].solution
                = UnionOfShifts(to, from, e.dest = cur, ks, 1)
           /\ e.dest # cur => varmap'[cur].solution = from
           /\ gained => e.dest \in changed'
           /\ ~gained => changed' = changed /\ changed_count' = changed_count
           /\ (gained /\ e.dest \notin changed)
                => changed_count' = changed_count + 1 ]_vars

\* The destination of the edge about to be propagated already holds the field
\* a structure member of the source was shifted to by a non-zero weight,
\* while another ordinary member of the source is shifted out of its
\* aggregate.
C28_Witness ==
  /\ pc = "propagate"
  /\ LET e == graph.succs[cur][pos]
         from == varmap[cur].solution
         to == varmap[e.dest].solution
     IN /\ e.dest # cur
        /\ \E k \in bitmaps[e.weights] \ { 0 } :
             /\ \E i \in from :
                  /\ IsOrdinary(i)
                  /\ varmap[i].offset + k < varmap[i].fullsize
                  /\ first_vi_for_offset(St, i, varmap[i].offset + k) \in to
             /\ \E i \in from :
                  /\ IsOrdinary(i)
                  /\ varmap[i].offset + k >= varmap[i].fullsize

\* ------------------------------------------------------------------------
\* C29: the complex-constraint lists stay sorted
\* ------------------------------------------------------------------------

\* The constraints a list of indices names, read in the constraint vector cs.
ListOf(cs, vec) == [ p \in DOMAIN vec |-> cs[vec[p]] ]

\* No element of the list is less than an earlier one.
NonDecreasing(list) ==
  \A p, q \in DOMAIN list : p < q => ~constraint_less(list[q], list[p])

\* The indices a list holds.
Members(vec) == { vec[p] : p \in DOMAIN vec }

\* C29: after any step that leaves the pass past build_constraint_graph, the
\* complex list of every variable is sorted non-decreasingly under
\* constraint_less, read with the dereferenced variables as unification has
\* rewritten them; and a step after graph build leaves two equal constraints
\* in a list only when both were in that same list before the step.
C29_SortedComplexLists ==
  [][ pc' # "start" =>
        \A v \in DOMAIN varmap' :
          LET vec == varmap'[v].complex
          IN /\ NonDecreasing(ListOf(constraints', vec))
             /\ pc # "start" =>
                  \A p, q \in DOMAIN vec :
                    (p < q /\ constraint_equal(constraints'[vec[p]],
                                               constraints'[vec[q]]))
                      => /\ v \in DOMAIN varmap
                         /\ { vec[p], vec[q] }
                              \subseteq Members(varmap[v].complex) ]_vars

\* Unification has moved rewritten constraints into the list of a
\* representative that held some already, and left out one that was equal to
\* a constraint of the list.
C29_Witness ==
  /\ pc \notin { "start", "built" }
  /\ \E v \in DOMAIN varmap :
       LET vec == varmap[v].complex
           off == Len(constraints) - Len(input)
       IN /\ Len(vec) >= 2
          /\ \E p \in DOMAIN vec :
               /\ vec[p] > off
               /\ input[vec[p] - off] # constraints[vec[p]]
          /\ \E p \in DOMAIN vec :
               /\ vec[p] > off
               /\ input[vec[p] - off] = constraints[vec[p]]
          /\ \E k \in DOMAIN constraints :
               /\ \A w \in DOMAIN varmap : k \notin Members(varmap[w].complex)
               /\ \E p \in DOMAIN vec :
                    constraint_equal(constraints[vec[p]], constraints[k])

\* ------------------------------------------------------------------------
\* C30: the constraint ordering
\* ------------------------------------------------------------------------

\* The constraints compared: those of the input, those stored, and each of
\* them with its sides exchanged.
Compared ==
  LET given == { input[k] : k \in DOMAIN input }
                 \cup { constraints[k] : k \in DOMAIN constraints }
  IN given \cup { new_constraint(c.rhs, c.lhs) : c \in given }

\* The six numbers of a constraint, lhs first, each side as kind, var, offset.
Key(c) ==
  << c.lhs.type, c.lhs.var, c.lhs.offset,
     c.rhs.type, c.rhs.var, c.rhs.offset >>

\* Lexicographic order of two keys.
LexLess(k1, k2) ==
  \E n \in DOMAIN k1 :
    /\ k1[n] < k2[n]
    /\ \A j \in DOMAIN k1 : j < n => k1[j] = k2[j]

\* C30: on the constraints of a built graph, constraint_less is irreflexive
\* and transitive, exactly one of constraint_less(a, b), constraint_less(b, a)
\* and constraint_equal(a, b) holds, and constraint_less is the lexicographic
\* comparison of lhs kind, lhs var, lhs offset, rhs kind, rhs var, rhs offset.
C30_StrictTotalOrder ==
  pc = "built" =>
    \A a, b \in Compared :
      /\ ~constraint_less(a, a)
      /\ (constraint_less(a, b) <=> LexLess(Key(a), Key(b)))
      /\ (constraint_equal(a, b) <=> Key(a) = Key(b))
      /\ Cardinality({ r \in { "less", "greater", "equal" } :
                         \/ r = "less" /\ constraint_less(a, b)
                         \/ r = "greater" /\ constraint_less(b, a)
                         \/ r = "equal" /\ constraint_equal(a, b) }) = 1
      /\ \A c \in Compared :
           (constraint_less(a, b) /\ constraint_less(b, c))
             => constraint_less(a, c)

\* build_constraint_graph has sorted into one complex list three constraints
\* of which the first two differ in the lhs offset only and the last two in
\* the rhs kind only.
C30_Witness ==
  /\ pc = "built"
  /\ \E v \in DOMAIN varmap :
       LET list == ListOf(constraints, varmap[v].complex)
       IN /\ Len(list) = 3
          /\ list[1].lhs.type = list[2].lhs.type
          /\ list[1].lhs.var = list[2].lhs.var
          /\ list[1].lhs.offset < list[2].lhs.offset
          /\ list[2].lhs = list[3].lhs
          /\ list[2].rhs.type < list[3].rhs.type
          /\ constraint_less(list[1], list[2])
          /\ constraint_less(list[2], list[3])

\* ------------------------------------------------------------------------
\* C31: the accounting of changed nodes
\* ------------------------------------------------------------------------

\* The representatives whose changed bit is set, in the state (vm, ch).
ChangedReps(vm, ch) == { v \in DOMAIN vm : vm[v].node = v /\ v \in ch }

\* The head of an iteration of solve_graph that unified nodes.
DynamicUnification ==
  /\ pc = "loop"
  /\ pc' = "iter"
  /\ stats'.unified_vars_dynamic > stats.unified_vars_dynamic

\* C31: after every step that leaves the pass inside solve_graph,
\* changed_count is the number of representatives whose changed bit is set;
\* a dynamic cycle unification leaves the bit of every node it folded away
\* clear; and solve_graph leaves its loop only when no representative is
\* marked changed.
C31_ChangedAccounting ==
  [][ /\ pc' \in { "loop", "iter", "complex", "propagate" }
           => changed_count' = Cardinality(ChangedReps(varmap', changed'))
      /\ DynamicUnification
           => \A v \in DOMAIN varmap :
                (varmap[v].node = v /\ varmap'[v].node # v)
                  => v \notin changed'
      /\ (pc = "loop" /\ pc' = "solved")
           => ChangedReps(varmap, changed) = {}
      /\ (pc = "loop" /\ pc' = "iter")
           => ChangedReps(varmap, changed) # {} ]_vars

\* A dynamic cycle unification has folded a node away and cleared its bit,
\* while the representative it was folded into is marked changed and counted.
C31_Witness ==
  /\ pc = "iter"
  /\ stats.unified_vars_dynamic > 0
  /\ changed_count = Cardinality(ChangedReps(varmap, changed))
  /\ \E v \in DOMAIN varmap :
       /\ varmap[v].node # v
       /\ v \notin changed
       /\ varmap[v].node \in changed

\* ------------------------------------------------------------------------
\* C32: the state solve_graph starts its loop in
\* ------------------------------------------------------------------------

\* solve_graph has initialised changed and changed_count and has not begun
\* an iteration.
SolverStarts == pc = "loop" /\ stats.iterations = 0

\* C32 as stated: when the solver starts, the changed bit of every
\* representative is set, the changed bit of every variable folded away is
\* clear, and changed_count is the number of representatives.
C32_SolverInitialisation ==
  SolverStarts =>
    /\ \A v \in DOMAIN varmap : v \in changed <=> IsRep(v)
    /\ changed_count = Cardinality({ v \in DOMAIN varmap : IsRep(v) })

\* C32 amended: when the solver starts, the changed bit of every variable is
\* set, that of a variable folded away included, and changed_count is the
\* number of representatives.
C32_SolverInitialisationAmended ==
  SolverStarts =>
    /\ \A v \in DOMAIN varmap : v \in changed
    /\ changed_count = Cardinality({ v \in DOMAIN varmap : IsRep(v) })

\* The solver starts after cycle unification or substitution has folded a
\* variable away.
C32_Witness ==
  /\ SolverStarts
  /\ \E v \in DOMAIN varmap : ~IsRep(v) /\ v \in changed
  /\ changed_count < Cardinality(DOMAIN varmap)

\* ------------------------------------------------------------------------
\* C33: which nodes offline substitution folds
\* ------------------------------------------------------------------------

\* A turn of the loop of perform_var_substitution.
SubstitutionStep ==
  /\ pc = "subst"
  /\ pc' = "subst"
  /\ Len(topo_order') = Len(topo_order) - 1

\* The node the turn pops.
Popped == topo_order[Len(topo_order)]

\* Node i may be folded into w.
EligibleFor(i, w) ==
  /\ ~varmap[i].address_taken
  /\ ~varmap[i].indirect_target
  /\ Len(graph.preds[i]) >= 1
  /\ \A p \in DOMAIN graph.preds[i] :
       /\ bitmaps[graph.preds[i][p].weights] = { 0 }
       /\ varmap[graph.preds[i][p].dest].node = w
  /\ w # i
  /\ varmap[i].solution \subseteq varmap[w].solution

\* C33: a turn of perform_var_substitution for the popped node i folds i
\* into w exactly when the flags address_taken and indirect_target of i are
\* both false, i has a predecessor edge, every predecessor edge of i has the
\* weight set {0}, every predecessor has the representative w, w is not i,
\* and the solution of i is included in that of w; in every other case i
\* stays its own representative and the variables, the graph and the
\* solutions are as before the turn.
C33_SubstitutionEligibility ==
  [][ SubstitutionStep =>
        LET i == Popped
        IN /\ varmap[i].node = i
           /\ \A w \in DOMAIN varmap :
                EligibleFor(i, w)
                  => /\ varmap'[i].node = w
                     /\ varmap'[w].node = w
                     /\ stats'.collapsed_vars = stats.collapsed_vars + 1
           /\ (~\E w \in DOMAIN varmap : EligibleFor(i, w))
                => /\ varmap' = varmap
                   /\ graph' = graph
                   /\ bitmaps' = bitmaps
                   /\ stats' = stats ]_vars

\* Substitution is over; it has folded one node and has left alone a node
\* without flags whose predecessors, all of weight {0}, have different
\* representatives.
C33_Witness ==
  /\ pc = "subst"
  /\ Len(topo_order) = 0
  /\ stats.collapsed_vars > 0
  /\ \E i \in DOMAIN varmap :
       /\ IsRep(i)
       /\ ~varmap[i].address_taken
       /\ ~varmap[i].indirect_target
       /\ \A p \in DOMAIN graph.preds[i] :
            bitmaps[graph.preds[i][p].weights] = { 0 }
       /\ \E p, q \in DOMAIN graph.preds[i] :
            varmap[graph.preds[i][p].dest].node
              # varmap[graph.preds[i][q].dest].node

\* ------------------------------------------------------------------------
\* C34: the flags of the variables a folded node stands for
\* ------------------------------------------------------------------------

\* The variables node r stands for in the variable map vm, r included.
Represented(vm, r) == { v \in DOMAIN vm : vm[v].node = r }

\* C34: a turn of perform_var_substitution that folds the popped node i away
\* finds address_taken and indirect_target false on every variable folded
\* into i before; and after every step each flag of a representative is the
\* OR of that flag over the variables it stands for.
C34_FoldedFlags ==
  [][ /\ (SubstitutionStep /\ varmap'[Popped].node # Popped)
           => \A v \in Represented(varmap, Popped) :
                ~varmap[v].address_taken /\ ~varmap[v].indirect_target
      /\ \A r \in DOMAIN varmap' :
           varmap'[r].node = r
             => /\ varmap'[r].address_taken
                     <=> \E v \in Represented(varmap', r) :
                           varmap'[v].address_taken
                /\ varmap'[r].indirect_target
                     <=> \E v \in Represented(varmap', r) :
                           varmap'[v].indirect_target ]_vars

\* ------------------------------------------------------------------------
\* C35: self-edges
\* ------------------------------------------------------------------------

\* The weights of the entries of vec that lead to d.
WeightsTo(vec, d) ==
  { bitmaps[vec[k].weights] : k \in { j \in DOMAIN vec : vec[j].dest = d } }

\* C35: once the graph is built, at every point between two steps, the
\* self-edge of a node, if it has one, is in its predecessors and in its
\* successors alike, its weights are not empty and do not hold 0.
C35_NoZeroSelfEdge ==
  pc # "start" =>
    \A n \in DOMAIN varmap :
      /\ HasEntry(graph.preds[n], n) <=> HasEntry(graph.succs[n], n)
      /\ \A W \in WeightsTo(graph.preds[n], n) \cup WeightsTo(graph.succs[n], n) :
           W # {} /\ 0 \notin W

\* Unification has merged a cycle into a node that keeps a self-edge of
\* weight 32, while the self-edges of weight 0 alone are gone.
C35_Witness ==
  /\ pc = "collapsed"
  /\ stats.unified_vars_static > 0
  /\ \E n \in DOMAIN varmap :
       /\ IsRep(n)
       /\ WeightsTo(graph.preds[n], n) = { { PointerSize } }
       /\ WeightsTo(graph.succs[n], n) = { { PointerSize } }

\* ------------------------------------------------------------------------
\* C36: one lookup of node reaches the representative
\* ------------------------------------------------------------------------

\* C36: at every point between two steps, the node of every variable is its
\* own node, also for a variable whose representative was folded into
\* another node after it had absorbed the variable.
C36_FlatUnionFind ==
  \A v \in DOMAIN varmap :
    /\ varmap[v].node \in DOMAIN varmap
    /\ varmap[varmap[v].node].node = varmap[v].node

\* A node that static cycle unification had folded a variable into was then
\* folded away itself by substitution, and its new representative stands for
\* both.
C36_Witness ==
  /\ pc \in { "subst", "loop", "iter", "solved" }
  /\ stats.unified_vars_static > 0
  /\ stats.collapsed_vars > 0
  /\ \E v, w \in DOMAIN varmap :
       /\ v # w
       /\ ~IsRep(v)
       /\ ~IsRep(w)
       /\ v \in varmap[varmap[w].node].variables
       /\ w \in varmap[varmap[w].node].variables
       /\ varmap[v].node = varmap[w].node

\* ------------------------------------------------------------------------
\* Variable creation for arbitrary declarations
\* ------------------------------------------------------------------------

MaxVariables == 13

\* Without the sort, the fieldstack stays in declaration-walk order.
sort_fieldstack_unsorted(fieldstack) == fieldstack

\* qsort with fieldoff_compare: by offset, then by size.
sort_fieldstack(fieldstack) ==
  SortSeq(fieldstack,
          LAMBDA foa, fob : IF foa.offset # fob.offset
                            THEN foa.offset < fob.offset
                            ELSE foa.size < fob.size)

\* The loop over the subvars of a declaration that already has them: the
\* first subvar becomes the base, every later one is linked into its field
\* list; the subvars carry their own offsets and share TYPE_SIZE (decltype).
RECURSIVE create_subvar_infos(_, _, _, _, _)
create_subvar_infos(s, fullsize, svars, i, base) ==
  IF i > Len(svars) THEN s
  ELSE LET index == Cardinality(DOMAIN s.varmap)
           vi == [ new_var_info(index, index) EXCEPT
                     !.fullsize = fullsize,
                     !.size = svars[i].size,
                     !.offset = svars[i].offset ]
           s1 == VEC_safe_push_varinfo(s, vi)
       IN IF base = NoVar
          THEN create_subvar_infos(s1, fullsize, svars, i + 1, index)
          ELSE create_subvar_infos(insert_into_field_list(s1, base, index),
                                   fullsize, svars, i + 1, base)

\* create_variable_info_for (decl, name) with use_field_sensitive set.  A
\* declaration is its type's size (size_known false for an array, a union
\* or a type without constant size), whether it can have subvars, whether a
\* union was found among its fields, the fieldstack the type walk pushes
\* and the subvars recorded for it.
create_variable_info_for_decl(s, decl) ==
  LET notokay == decl.can_have_subvars /\ decl.hasunion
  IN IF ~notokay /\ decl.can_have_subvars /\ decl.svars # << >>
     THEN create_subvar_infos(s, decl.fullsize, decl.svars, 1, NoVar)
     ELSE IF ~decl.size_known
     THEN create_unknown_size_variable(s)
     ELSE IF ~notokay /\ decl.can_have_subvars
     THEN IF \/ decl.fieldstack = << >>
             \/ \E i \in DOMAIN decl.fieldstack : ~decl.fieldstack[i].okay
          THEN create_unknown_size_variable(s)
          ELSE create_structure_info_for(s, decl.fullsize,
                                         sort_fieldstack(decl.fieldstack))
     ELSE create_variable_info_for(s, decl.fullsize)

\* The declarations the front end hands over.  The fields of a type without
\* unions have positive sizes and distinct bit positions; the type walk
\* pushes them in any order; the subvars of a declaration are the used
\* fields, listed by increasing offset.
Declarations ==
  LET F(o, sz) == [ offset |-> o, size |-> sz, okay |-> TRUE ]
      f0 == F(0, PointerSize)
      f1 == F(PointerSize, PointerSize)
      f2 == F(2 * PointerSize, 2 * PointerSize)
      D(known, sub, un, full, fs, sv) ==
        [ size_known |-> known, can_have_subvars |-> sub, hasunion |-> un,
          fullsize |-> full, fieldstack |-> fs, svars |-> sv ]
  IN { D(TRUE, FALSE, FALSE, PointerSize, << >>, << >>),
       D(FALSE, FALSE, FALSE, 0, << >>, << >>),
       D(TRUE, TRUE, TRUE, 4 * PointerSize, << >>, << >>),
       D(TRUE, TRUE, FALSE, 4 * PointerSize, << >>, << >>),
       D(TRUE, TRUE, FALSE, 4 * PointerSize,
         << f0, [ f1 EXCEPT !.okay = FALSE ] >>, << >>),
       D(TRUE, TRUE, FALSE, 4 * PointerSize, << f2, f1, f0 >>, << >>),
       D(TRUE, TRUE, FALSE, 4 * PointerSize, << f1, f2, f0 >>, << >>),
       D(TRUE, TRUE, FALSE, 4 * PointerSize, << f2, f0 >>, << >>),
       D(TRUE, TRUE, FALSE, 4 * PointerSize, << f0, f1, f2 >>,
         << f1, f2 >>) }

\* One call of create_variable_info_for while the constraints are being
\* generated.
CreateVariable ==
  /\ pc = "start"
  /\ Cardinality(DOMAIN varmap) < MaxVariables
  /\ \E decl \in Declarations :
       Becomes(Halt([ M EXCEPT !.s = create_variable_info_for_decl(@, decl) ]))
  /\ UNCHANGED << input, first_pt, query, pt_vars >>

\* The runs whose constraints are one of the scenarios.
InitCreate == Init /\ input \in Scenarios

SpecCreate == InitCreate /\ [][CreateVariable \/ Next]_vars

IterationStarts == pc = "loop" /\ pc' = "iter"

\* The iteration that starts is not the first one, and an edge has been
\* added since edge_added was cleared.
DetectionDue == stats.iterations >= 1 /\ edge_added

\* The state find_and_collapse_graph_cycles (graph, true) makes of the
\* current one.
AfterDetection == find_and_collapse_graph_cycles(St, TRUE)

Reps(vm) == { v \in DOMAIN vm : vm[v].node = v }

\* The destinations of the successor edges of n, whatever their weights.
SuccAny(g, n) == { g.succs[n][k].dest : k \in DOMAIN g.succs[n] }

RECURSIVE ClosureAny(_, _)
ClosureAny(g, S) ==
  LET T == S \cup UNION { SuccAny(g, n) : n \in S }
  IN IF T = S THEN S ELSE ClosureAny(g, T)

\* No path of successor edges leads from a representative back to it.
AcyclicAmongReps(g, vm) ==
  \A n \in Reps(vm) : n \notin ClosureAny(g, SuccAny(g, n))

\* The place of n in the order; VEC_pop takes the last element, so the
\* larger place is popped first.
Place(order, n) == CHOOSE k \in DOMAIN order : order[k] = n

\* A node is popped from the order.
PopStep == pc = "iter" /\ Len(topo_order) # 0

\* C39: the order computed at the start of an iteration holds every
\* representative exactly once and no other variable; each step of the
\* iteration that pops takes one node, a representative, off its end and
\* no other step touches the order or makes or unmakes a representative,
\* so that each representative is popped exactly once; when no path of
\* successor edges among the representatives is a cycle, each node is
\* popped before every destination of its successor edges; and then, the
\* edges being those of copies only (no complex constraint), every change
\* has reached the end of its chain when the iteration ends: no node is
\* left marked changed.
C39_ProcessingOrder ==
  [][ /\ IterationStarts =>
           /\ Len(topo_order') = Cardinality(Reps(varmap'))
           /\ { topo_order'[k] : k \in DOMAIN topo_order' } = Reps(varmap')
           /\ AcyclicAmongReps(graph', varmap') =>
                \A n \in Reps(varmap') : \A d \in SuccAny(graph', n) :
                  Place(topo_order', n) > Place(topo_order', d)
      /\ PopStep =>
           /\ topo_order[Len(topo_order)] \in Reps(varmap)
           /\ topo_order' = SubSeq(topo_order, 1, Len(topo_order) - 1)
      /\ (pc \in { "iter", "complex", "propagate" } /\ ~PopStep) =>
           topo_order' = topo_order
      /\ pc \in { "iter", "complex", "propagate" } =>
           Reps(varmap') = Reps(varmap)
      /\ ( /\ pc = "iter"
           /\ pc' = "loop"
           /\ AcyclicAmongReps(graph, varmap)
           /\ \A v \in DOMAIN varmap : varmap[v].complex = << >> )
           => changed_count' = 0 /\ changed' \cap Reps(varmap') = {} ]_vars

\* The first iteration has ended on an acyclic graph without complex
\* constraints: a solution has gone down a chain of two edges between three
\* representatives and nothing is left to do.
C39_Witness ==
  /\ pc = "loop"
  /\ stats.iterations = 1
  /\ changed_count = 0
  /\ AcyclicAmongReps(graph, varmap)
  /\ \A v \in DOMAIN varmap : varmap[v].complex = << >>
  /\ \E n, d, e \in Reps(varmap) :
       /\ Cardinality({ n, d, e }) = 3
       /\ d \in SuccAny(graph, n)
       /\ e \in SuccAny(graph, d)
       /\ e \notin SuccAny(graph, n)
       /\ varmap[n].solution # {}
       /\ varmap[n].solution \subseteq varmap[d].solution
       /\ varmap[d].solution \subseteq varmap[e].solution

\* ------------------------------------------------------------------------
\* Component references
\* ------------------------------------------------------------------------

offset_overlaps_with_access(fieldpos, fieldsize, accesspos, accesssize) ==
  IF fieldpos = accesspos /\ fieldsize = accesssize THEN TRUE
  ELSE IF accesspos >= fieldpos /\ accesspos <= fieldpos + fieldsize THEN TRUE
  ELSE IF accesspos < fieldpos /\ accesspos + accesssize > fieldpos THEN TRUE
  ELSE FALSE

\* get_constraint_for_component_ref for a reference whose innermost object
\* has the constraint expression ref.base (a variable, or the dereference
\* of a pointer) and whose position get_inner_reference gives as ref.bitpos
\* and ref.bitsize, ref.known telling that the position is constant.  The
\* result is the state, in which the assertion may have failed, and the
\* expression.
get_constraint_for_component_ref(s, ref) ==
  LET result == IF ref.known
                THEN [ ref.base EXCEPT !.offset = ref.bitpos ]
                ELSE [ ref.base EXCEPT !.var = anything_id, !.offset = 0 ]
      walk[curr \in DOMAIN s.varmap \cup { NoVar }] ==
        IF curr = NoVar THEN NoVar
        ELSE IF offset_overlaps_with_access(s.varmap[curr].offset,
                                            s.varmap[curr].size,
                                            result.offset, ref.bitsize)
        THEN curr
        ELSE walk[s.varmap[curr].next]
  IN IF result.type # SCALAR THEN [ s |-> s, result |-> result ]
     ELSE IF result.offset < s.varmap[result.var].fullsize
     THEN IF walk[result.var] = NoVar
          THEN [ s |-> Fail(s, "get_constraint_for_component_ref"),
                 result |-> [ result EXCEPT !.offset = 0 ] ]
          ELSE [ s |-> s,
                 result |-> [ result EXCEPT !.var = walk[result.var],
                                            !.offset = 0 ] ]
     ELSE [ s |-> s, result |-> [ result EXCEPT !.offset = 0 ] ]

\* The references of the statements a = <reference>: to each field of s, to
\* the whole of s, to parts of its fields, to one past its end, to the
\* scalar b, through the pointer c, and at a position that is not constant.
ComponentRefs ==
  LET R(base, bitpos, bitsize) ==
        [ base |-> base, bitpos |-> bitpos, bitsize |-> bitsize,
          known |-> TRUE ]
  IN { R(Sc(Vs0), 0, PointerSize),
       R(Sc(Vs0), PointerSize, PointerSize),
       R(Sc(Vs0), 0, 2 * PointerSize),
       R(Sc(Vs0), PointerSize - 8, 8),
       R(Sc(Vs0), PointerSize + 8, 8),
       R(Sc(Vs0), 2 * PointerSize, PointerSize),
       R(Sc(Vb), 0, PointerSize),
       R(De(Vc), PointerSize, PointerSize),
       [ base |-> Sc(Vs0), bitpos |-> 0, bitsize |-> AllOnes,
         known |-> FALSE ] }

\* The front end meets the statement a = <reference>: it resolves the
\* reference and hands the constraint to process_constraint.  The input
\* keeps the statement with the reference as it was written.
ComponentRef ==
  /\ pc = "start"
  /\ Len(input) < MaxProcessed
  /\ \E ref \in ComponentRefs :
       LET r == get_constraint_for_component_ref(St, ref)
       IN /\ Becomes(Halt([ M EXCEPT !.s =
                 IF r.s.err # "" THEN r.s
                 ELSE process_constraint(r.s,
                                         new_constraint(Sc(Va), r.result)) ]))
          /\ input' = Append(input, [ lhs |-> Sc(Va), ref |-> ref ])
  /\ UNCHANGED << first_pt, query, pt_vars >>

SpecComponentRef ==
  InitFrontEnd /\ [][ComponentRef \/ ProcessConstraint \/ Next]_vars

\* ------------------------------------------------------------------------
\* C40: which field a component reference is resolved to
\* ------------------------------------------------------------------------

\* The bit ranges [fieldpos, fieldpos + fieldsize) and
\* [accesspos, accesspos + accesssize) have a bit in common.
Overlaps(fieldpos, fieldsize, accesspos, accesssize) ==
  /\ accesspos < fieldpos + fieldsize
  /\ fieldpos < accesspos + accesssize

RECURSIVE ChainOf(_, _)
\* v and the fields after it in its field list.
ChainOf(vm, v) == IF v = NoVar THEN {} ELSE { v } \cup ChainOf(vm, vm[v].next)

\* The step resolves a reference into a variable at a constant position.
ComponentRefStep ==
  /\ pc = "start"
  /\ Len(input') = Len(input) + 1
  /\ "ref" \in DOMAIN input'[Len(input')]
  /\ input'[Len(input')].ref.known
  /\ input'[Len(input')].ref.base.type = SCALAR

\* C40: for every field the walk of a component reference can meet,
\* offset_overlaps_with_access is true exactly when the range of the access
\* and the range of the field have a bit in common; an access that starts
\* where a field ends does not overlap that field, and the constraint made
\* for a reference to a later field does not name the field before it.
C40_OverlapExact ==
  [][ ComponentRefStep =>
        LET ref == input'[Len(input')].ref
            stored == constraints'[Len(constraints')]
        IN \A f \in ChainOf(varmap, ref.base.var) :
             /\ offset_overlaps_with_access(varmap[f].offset, varmap[f].size,
                                            ref.bitpos, ref.bitsize)
                  = Overlaps(varmap[f].offset, varmap[f].size,
                             ref.bitpos, ref.bitsize)
             /\ ref.bitpos = varmap[f].offset + varmap[f].size
                  => /\ ~offset_overlaps_with_access(
                           varmap[f].offset, varmap[f].size,
                           ref.bitpos, ref.bitsize)
                     /\ stored.rhs.var # f ]_vars

====
